---------------------------- MODULE Spec2Model ----------------------------
(***************************************************************************)
(* Model of the EPUB-to-audiobook-JSON converters of langpub.              *)
(*                                                                         *)
(*   sequential converter : src/unnamed/part_002 (convertEpubToAudiobookJSON,*)
(*                          one classification call at a time)             *)
(*   batched converter    : src/unnamed/part_001 (processBatchesWithDelay) *)
(*                                                                         *)
(* JavaScript strings that the code scans (durations, cleaned text) are    *)
(* sequences of one-character strings.  JavaScript objects are functions   *)
(* from field names to values; a field that is undefined is not in the     *)
(* DOMAIN.  The JSON literals true, false and null of the include flag are *)
(* the strings "true", "false" and "null".                                 *)
(***************************************************************************)
EXTENDS Integers, Sequences, FiniteSets, TLC

(***************************************************************************)
(* Bounds of the model (not program constants).                            *)
(***************************************************************************)
MaxSpine == 3
MaxSplitSteps == 4
MaxUnits == 3
MaxTextLen == 4
MaxWords == 380
MaxPrefixLen == 2

(***************************************************************************)
(* Program constants.                                                      *)
(***************************************************************************)
PromptSampleChars == 3000
BatchPromptSampleChars == 15000
RawResponseChars == 500
WordsPerMinute == 150
DefaultBatchSize == 3

(***************************************************************************)
(* Characters and strings.                                                 *)
(***************************************************************************)
Digits == {"0", "1", "2", "3", "4", "5", "6", "7", "8", "9"}

Whitespace == {" ", "\n", "\t"}

DigitValue(c) ==
  CASE c = "0" -> 0 [] c = "1" -> 1 [] c = "2" -> 2 [] c = "3" -> 3
    [] c = "4" -> 4 [] c = "5" -> 5 [] c = "6" -> 6 [] c = "7" -> 7
    [] c = "8" -> 8 [] c = "9" -> 9

DigitChar(d) ==
  CASE d = 0 -> "0" [] d = 1 -> "1" [] d = 2 -> "2" [] d = 3 -> "3"
    [] d = 4 -> "4" [] d = 5 -> "5" [] d = 6 -> "6" [] d = 7 -> "7"
    [] d = 8 -> "8" [] d = 9 -> "9"

\* `${n}` for a non-negative integer n: its decimal digits.
RECURSIVE NumToStr(_)
NumToStr(n) ==
  IF n < 10 THEN <<DigitChar(n)>>
  ELSE NumToStr(n \div 10) \o <<DigitChar(n % 10)>>

\* parseInt(s, 10) of a non-empty run of decimal digits.
RECURSIVE ParseInt(_)
ParseInt(s) ==
  IF s = <<>> THEN 0
  ELSE 10 * ParseInt(SubSeq(s, 1, Len(s) - 1)) + DigitValue(s[Len(s)])

\* String.prototype.substring(from, to) with 0-based indices.
Substring(s, from, to) ==
  LET a == IF from > Len(s) THEN Len(s) ELSE from
      b == IF to > Len(s) THEN Len(s) ELSE to
  IN  SubSeq(s, a + 1, b)

\* String.prototype.trim().
RECURSIVE TrimLeft(_)
TrimLeft(s) ==
  IF s # <<>> /\ s[1] \in Whitespace THEN TrimLeft(Tail(s)) ELSE s

RECURSIVE TrimRight(_)
TrimRight(s) ==
  IF s # <<>> /\ s[Len(s)] \in Whitespace
  THEN TrimRight(SubSeq(s, 1, Len(s) - 1)) ELSE s

Trim(s) == TrimRight(TrimLeft(s))

\* Every run of whitespace becomes one space.
RECURSIVE CollapseWhitespace(_)
CollapseWhitespace(s) ==
  IF s = <<>> THEN <<>>
  ELSE IF s[1] \in Whitespace
       THEN <<" ">> \o CollapseWhitespace(TrimLeft(s))
       ELSE <<s[1]>> \o CollapseWhitespace(Tail(s))

\* Spread with the fields of parsed overriding those of extra.
SpreadParsedLast(parsed, extra) ==
  [k \in (DOMAIN parsed) \cup (DOMAIN extra) |->
     IF k \in DOMAIN parsed THEN parsed[k] ELSE extra[k]]

\* The object { ...parsed, ...extra }: the fields of extra override.
Spread(parsed, extra) ==
  [k \in (DOMAIN parsed) \cup (DOMAIN extra) |->
     IF k \in DOMAIN extra THEN extra[k] ELSE parsed[k]]

NoFields == [k \in {} |-> ""]

Has(obj, k) == k \in DOMAIN obj

Max(a, b) == IF a > b THEN a ELSE b


(***************************************************************************)
(* The EPUB archive (the input).  Paths are sequences of segments.  A      *)
(* missing attribute or element text is the empty string, which is what    *)
(* getAttribute returns and what the code's truthiness tests treat alike.  *)
(***************************************************************************)
HtmlMediaTypes == {"application/xhtml+xml", "text/html"}

\* The media type contains html (or xhtml).
IncludesHtml(mediaType) == mediaType \in HtmlMediaTypes

OpfPath == <<"OEBPS", "content.opf">>

\* path.dirname(opfPath)
Dirname(p) == SubSeq(p, 1, Len(p) - 1)

\* path.join(opfDir, href)
PathJoin(dir, href) == dir \o href

\* The <item> elements of the package document, in document order.  The
\* last one repeats the id "c2".
ManifestElements ==
  << [id |-> "c1", href |-> <<"ch1.xhtml">>, mediaType |-> "application/xhtml+xml"],
     [id |-> "c2", href |-> <<"text", "ch2.html">>, mediaType |-> "text/html"],
     [id |-> "img", href |-> <<"cover.png">>, mediaType |-> "image/png"],
     [id |-> "gone", href |-> <<"missing.xhtml">>, mediaType |-> "application/xhtml+xml"],
     [id |-> "", href |-> <<"noid.xhtml">>, mediaType |-> "application/xhtml+xml"],
     [id |-> "c2", href |-> <<"ch2b.xhtml">>, mediaType |-> "application/xhtml+xml"] >>

\* The idref attributes a spine itemref may carry: "" is an itemref without
\* idref, "nowhere" is not declared in the manifest.
IdRefs == {"", "c1", "c2", "img", "gone", "nowhere"}

\* Markup of the content documents.  "<tag>" stands for one tag,
\* "<script>" and "<style>" for a whole script or style block.
RawContent(path) ==
  CASE path = <<"OEBPS", "ch1.xhtml">> ->
         << "<tag>", "<script>", "<tag>", "H", "i", ".", " ", " ", "G", "o", " ",
            "o", "n", "!", "<tag>", "\n", "<style>", "<tag>", "O", "k", "<tag>" >>
    [] path = <<"OEBPS", "text", "ch2.html">> ->
         << "<tag>", "N", "o", ".", "<tag>" >>
    [] path = <<"OEBPS", "ch2b.xhtml">> ->
         << "B", "<tag>" >>
    [] path = <<"OEBPS", "cover.png">> ->
         << "P", "N", "G" >>
    [] path = <<"OEBPS", "noid.xhtml">> ->
         << "<tag>", "X", "<tag>" >>
    [] OTHER -> <<>>

ZipEntries ==
  { <<"META-INF", "container.xml">>, OpfPath,
    <<"OEBPS", "ch1.xhtml">>, <<"OEBPS", "text", "ch2.html">>,
    <<"OEBPS", "ch2b.xhtml">>, <<"OEBPS", "cover.png">>,
    <<"OEBPS", "noid.xhtml">> }

RECURSIVE SeqsUpTo(_, _)
SeqsUpTo(S, n) ==
  IF n = 0 THEN {<<>>}
  ELSE LET shorter == SeqsUpTo(S, n - 1)
       IN  shorter \cup {Append(s, x) : s \in {t \in shorter : Len(t) = n - 1}, x \in S}

\* dcLanguage is the text of each dc:language element, packageLang the
\* xml:lang attribute of the package element, metas the meta elements, all
\* in document order.
WellFormed(spine) ==
  [ zipOk |-> TRUE, hasRootfile |-> TRUE,
    fullPath |-> OpfPath, entries |-> ZipEntries,
    dcTitle |-> "Test Book", dcCreator |-> "",
    dcLanguage |-> << <<"e", "n", "-", "U", "S">> >>,
    packageLang |-> <<>>, metas |-> <<>>,
    manifest |-> ManifestElements, spine |-> spine ]

\* The archives with a defect at the archive stage.
DefectiveArchives ==
  LET a == WellFormed(<<"c1", "c2">>)
  IN  { [a EXCEPT !.zipOk = FALSE],
        [a EXCEPT !.entries = ZipEntries \ {<<"META-INF", "container.xml">>, OpfPath}],
        [a EXCEPT !.entries = ZipEntries \ {<<"META-INF", "container.xml">>}],
        [a EXCEPT !.hasRootfile = FALSE],
        [a EXCEPT !.fullPath = <<>>],
        [a EXCEPT !.entries = ZipEntries \ {OpfPath}] }

Meta(name, property, content, text) ==
  [name |-> name, property |-> property, content |-> content, text |-> text]

\* The places a package document may declare its language in.
DcLanguageTexts ==
  { <<>>, << <<>> >>, << <<>>, <<"j", "a">> >>, << <<"z", "h">>, <<"j", "a">> >> }

PackageLangs == { <<>>, <<"f", "r">> }

MetaElements ==
  { <<>>,
    << Meta("viewport", "", <<"w">>, <<>>), Meta("language", "", <<"d", "e">>, <<>>) >>,
    << Meta("dc:language", "", <<>>, <<"e", "s">>), Meta("language", "", <<"d", "e">>, <<>>) >>,
    << Meta("", "language", <<>>, <<>>), Meta("language", "", <<"d", "e">>, <<>>) >>,
    << Meta("cover", "", <<"i", "t">>, <<>>) >> }

\* Archives that differ in where the language is declared.
LanguageVariants ==
  { [WellFormed(<<"c1">>) EXCEPT !.dcLanguage = dc, !.packageLang = pl, !.metas = ms] :
      dc \in DcLanguageTexts, pl \in PackageLangs, ms \in MetaElements }

Archives ==
  {WellFormed(spine) : spine \in SeqsUpTo(IdRefs, MaxSpine)}
    \cup DefectiveArchives \cup LanguageVariants

(***************************************************************************)
(* extractTextFromEpub: the archive stage.                                 *)
(***************************************************************************)
NoFault == <<>>

\* ArchiveFault without the check that the package document exists.
ArchiveFaultUncheckedOpf(a) ==
  IF ~a.zipOk THEN <<"Invalid or unsupported zip format">>
  ELSE IF <<"META-INF", "container.xml">> \notin a.entries
  THEN <<"Invalid EPUB: Missing container.xml">>
  ELSE IF ~a.hasRootfile
  THEN <<"Invalid EPUB: Cannot find rootfile in container.xml">>
  ELSE IF a.fullPath = <<>>
  THEN <<"Invalid EPUB: Missing OPF path">>
  ELSE NoFault

\* The message of the Error thrown inside extractTextFromEpub's try block
\* before the package document is read, NoFault when none is thrown.
ArchiveFault(a) ==
  IF ~a.zipOk THEN <<"Invalid or unsupported zip format">>
  ELSE IF <<"META-INF", "container.xml">> \notin a.entries
  THEN <<"Invalid EPUB: Missing container.xml">>
  ELSE IF ~a.hasRootfile
  THEN <<"Invalid EPUB: Cannot find rootfile in container.xml">>
  ELSE IF a.fullPath = <<>>
  THEN <<"Invalid EPUB: Missing OPF path">>
  ELSE IF a.fullPath \notin a.entries
  THEN <<"Invalid EPUB: Missing OPF file at ">> \o a.fullPath
  ELSE NoFault

\* ExtractionError with the message of the caught error dropped.
ExtractionErrorWithoutCause(causeMessage) ==
  [name |-> "Error",
   message |-> <<"Failed to extract EPUB content: ", "Unknown error">>]

\* The catch block of extractTextFromEpub: a new Error whose message is the
\* fixed prefix followed by the message of the caught error.
ExtractionError(causeMessage) ==
  [name |-> "Error",
   message |-> <<"Failed to extract EPUB content: ">> \o causeMessage]

NoError == [name |-> "", message |-> <<>>]

BookTitle(a) == IF a.dcTitle = "" THEN "Untitled Book" ELSE a.dcTitle

BookAuthor(a) == IF a.dcCreator = "" THEN "Unknown Author" ELSE a.dcCreator

\* getTextFromXpath: the text of the first node selected, null (here the
\* empty text, which the callers' tests treat alike) when there is none.
getTextFromXpath(texts) == IF texts = <<>> THEN <<>> ELSE texts[1]

\* The test of the meta loop.
IsLanguageMeta(meta) ==
  meta.name = "dc:language" \/ meta.property = "language" \/ meta.name = "language"

\* language as the meta loop leaves it: content, or else the text, of the
\* first meta element passing the test.
MetaLanguage(metas) ==
  LET hits == {i \in 1..Len(metas) : IsLanguageMeta(metas[i])}
  IN  IF hits = {} THEN <<>>
      ELSE LET meta == metas[CHOOSE i \in hits : \A j \in hits : i <= j]
           IN  IF meta.content # <<>> THEN meta.content ELSE meta.text

\* BookLanguage with the package element's xml:lang read first.
BookLanguagePackageFirst(a) ==
  LET dc == getTextFromXpath(a.dcLanguage)
      found == IF a.packageLang # <<>> THEN a.packageLang
               ELSE IF dc # <<>> THEN dc
               ELSE MetaLanguage(a.metas)
  IN  IF found = <<>> THEN <<"e", "n">> ELSE found

\* The language of the package document: dc:language, else the package
\* element's xml:lang, else a language meta element, else "en".
BookLanguage(a) ==
  LET dc == getTextFromXpath(a.dcLanguage)
      found == IF dc # <<>> THEN dc
               ELSE IF a.packageLang # <<>> THEN a.packageLang
               ELSE MetaLanguage(a.metas)
  IN  IF found = <<>> THEN <<"e", "n">> ELSE found

\* getManifestItems: the items with non-empty id, href and media-type.
getManifestItems(a) ==
  SelectSeq(a.manifest,
            LAMBDA item : item.id # "" /\ item.href # <<>> /\ item.mediaType # "")

\* FindItem taking the last match.
FindItemLast(items, idref) ==
  LET hits == {i \in 1..Len(items) : items[i].id = idref}
  IN  IF hits = {} THEN 0 ELSE CHOOSE i \in hits : \A j \in hits : i >= j

\* manifestItems.find(item => item.id === idref): the index of the first
\* match, 0 when there is none.
FindItem(items, idref) ==
  LET hits == {i \in 1..Len(items) : items[i].id = idref}
  IN  IF hits = {} THEN 0 ELSE CHOOSE i \in hits : \A j \in hits : i <= j

\* cleanHtml: drop script and style blocks, turn tags into spaces, collapse
\* whitespace, trim.
RECURSIVE StripMarkup(_)
StripMarkup(html) ==
  IF html = <<>> THEN <<>>
  ELSE IF html[1] \in {"<script>", "<style>"} THEN StripMarkup(Tail(html))
  ELSE IF html[1] = "<tag>" THEN <<" ">> \o StripMarkup(Tail(html))
  ELSE <<html[1]>> \o StripMarkup(Tail(html))

cleanHtml(html) == Trim(CollapseWhitespace(StripMarkup(html)))


(***************************************************************************)
(* parseSentences and countWords.                                          *)
(***************************************************************************)
UpperLetters ==
  << "A", "B", "C", "D", "E", "F", "G", "H", "I", "J", "K", "L", "M",
     "N", "O", "P", "Q", "R", "S", "T", "U", "V", "W", "X", "Y", "Z" >>

LowerLetters ==
  << "a", "b", "c", "d", "e", "f", "g", "h", "i", "j", "k", "l", "m",
     "n", "o", "p", "q", "r", "s", "t", "u", "v", "w", "x", "y", "z" >>

AtoZ == {UpperLetters[i] : i \in 1..26}

ToLowerChar(c) ==
  IF c \in AtoZ
  THEN LowerLetters[CHOOSE i \in 1..26 : UpperLetters[i] = c]
  ELSE c

\* The first two characters of the language (en when empty), lower-cased.
LangCode(language) ==
  LET l == IF language = <<>> THEN <<"e", "n">> ELSE language
      two == Substring(l, 0, 2)
  IN  [i \in 1..Len(two) |-> ToLowerChar(two[i])]

EastAsian == {<<"j", "a">>, <<"z", "h">>, <<"k", "o">>}

\* A character outside ASCII is written as its code point: "U+3002" is the
\* ideographic full stop, "U+FF01" and "U+FF1F" the full-width ! and ?.
AsciiTerminals == {".", "!", "?"}

WideTerminals == {"U+3002", "U+FF01", "U+FF1F"}

\* languagePatterns[langCode] || languagePatterns['en']: the characters the
\* pattern splits at, and the characters its lookahead accepts.
PatternMarks(code) ==
  IF code \in {<<"j", "a">>, <<"z", "h">>} THEN WideTerminals
  ELSE IF code = <<"k", "o">> THEN AsciiTerminals \cup WideTerminals
  ELSE AsciiTerminals

PatternCapitals(code) ==
  IF code = <<"e", "s">> THEN AtoZ \cup {"U+00BF", "U+00A1"}
  ELSE IF code = <<"d", "e">> THEN AtoZ \cup {"U+00C4", "U+00D6", "U+00DC", "U+00DF"}
  ELSE AtoZ

\* The length of the whitespace run at the head of s.
RECURSIVE LeadingWhitespace(_)
LeadingWhitespace(s) ==
  IF s # <<>> /\ s[1] \in Whitespace THEN 1 + LeadingWhitespace(Tail(s)) ELSE 0

\* BoundaryAt without the lookahead for a capital letter.
BoundaryAtWithoutLookahead(s, marks, capitals) ==
  /\ s # <<>>
  /\ s[1] \in marks
  /\ LET w == LeadingWhitespace(Tail(s))
     IN  w > 0 /\ Len(s) >= w + 2

\* Whether /([.!?])\s+(?=[A-Z])/ matches at the head of s.
BoundaryAt(s, marks, capitals) ==
  /\ s # <<>>
  /\ s[1] \in marks
  /\ LET w == LeadingWhitespace(Tail(s))
     IN  w > 0 /\ Len(s) >= w + 2 /\ s[w + 2] \in capitals

\* cleanText.split(sentenceRegex) for a Latin pattern: the text parts
\* alternate with the captured marks.
RECURSIVE SplitBoundaries(_, _, _, _)
SplitBoundaries(s, cur, marks, capitals) ==
  IF s = <<>> THEN <<cur>>
  ELSE IF BoundaryAt(s, marks, capitals)
       THEN <<cur, <<s[1]>>>>
            \o SplitBoundaries(SubSeq(s, 2 + LeadingWhitespace(Tail(s)), Len(s)),
                               <<>>, marks, capitals)
       ELSE SplitBoundaries(Tail(s), Append(cur, s[1]), marks, capitals)

\* cleanText.split(/([marks])/) : the parts alternate with the captured marks.
RECURSIVE SplitMarks(_, _, _)
SplitMarks(s, cur, marks) ==
  IF s = <<>> THEN <<cur>>
  ELSE IF s[1] \in marks
       THEN <<cur, <<s[1]>>>> \o SplitMarks(Tail(s), <<>>, marks)
       ELSE SplitMarks(Tail(s), Append(cur, s[1]), marks)

\* JoinMarks with the captured marks left out.
JoinMarksDroppingMark(parts) ==
  LET evens == {i \in 1..Len(parts) : i % 2 = 1}
      nth(k) == 2 * k - 1
  IN  [k \in 1..Cardinality(evens) |-> parts[nth(k)]]

\* The reduce of parseSentences: each text part joined with the mark after it.
JoinMarks(parts) ==
  LET evens == {i \in 1..Len(parts) : i % 2 = 1}
      nth(k) == 2 * k - 1
  IN  [k \in 1..Cardinality(evens) |->
         IF nth(k) < Len(parts) THEN parts[nth(k)] \o parts[nth(k) + 1]
         ELSE parts[nth(k)]]

\* .map(s => s.trim()).filter(s => s.length > 0)
TrimAndDropEmpty(parts) ==
  SelectSeq([i \in 1..Len(parts) |-> Trim(parts[i])], LAMBDA x : x # <<>>)

parseSentences(text, language) ==
  LET cleanText == Trim(CollapseWhitespace(text))
      code == LangCode(language)
  IN  IF code \in EastAsian
      THEN TrimAndDropEmpty(SplitMarks(cleanText, <<>>, PatternMarks(code)))
      ELSE TrimAndDropEmpty(
             JoinMarks(SplitBoundaries(cleanText, <<>>, PatternMarks(code),
                                       PatternCapitals(code))))

\* text.split(/\s+/).filter(w => w.length > 0).length: one part ends at
\* every character that is not whitespace and has whitespace or the end of
\* the text after it.
CountTokens(s) ==
  Cardinality({i \in 1..Len(s) :
                 s[i] \notin Whitespace /\ (i = Len(s) \/ s[i + 1] \in Whitespace)})

countWords(text, language) ==
  IF LangCode(language) \in EastAsian
  THEN LET n == Len(SelectSeq(text, LAMBDA c : c \notin Whitespace))
       IN  (2 * n + 4) \div 5
  ELSE CountTokens(text)

\* DurationMinutes with the quotient rounded down.
DurationMinutesFloor(wordCount) ==
  Max(1, wordCount \div WordsPerMinute)

\* Math.max(1, Math.round(wordCount / 150))
DurationMinutes(wordCount) ==
  Max(1, (2 * wordCount + WordsPerMinute) \div (2 * WordsPerMinute))

\* `${durationMinutes}m 0s`
MinutesString(minutes) == NumToStr(minutes) \o <<"m", " ", "0", "s">>


(***************************************************************************)
(* The oracle's response text and its parsing.  A text is a sequence of    *)
(* tokens: a code-fence marker with or without the json tag, a line        *)
(* break, a run of prose (without braces) or the text of one complete      *)
(* JSON value.  substring counts tokens; in LongProse every token is one   *)
(* character of prose, so that there it counts characters.                 *)
(***************************************************************************)
NoValue == [type |-> "none", fields |-> NoFields]

FenceJson == [t |-> "fence-json", v |-> NoValue]

Fence == [t |-> "fence", v |-> NoValue]

Newline == [t |-> "\n", v |-> NoValue]

Prose == [t |-> "prose", v |-> NoValue]

Ellipsis == [t |-> "...", v |-> NoValue]

JsonObject(fields) == [t |-> "json", v |-> [type |-> "object", fields |-> fields]]

JsonNull == [t |-> "json", v |-> [type |-> "null", fields |-> NoFields]]

\* "fence-json" is the marker of three backquotes followed by json, "fence"
\* the bare marker; every tagged marker also begins with the bare one.
IsFence(tok) == tok.t \in {"fence", "fence-json"}

IsObjectText(tok) == tok.t = "json" /\ tok.v.type = "object"

NoMatch == [found |-> FALSE, whole |-> <<>>, group |-> <<>>]

\* text.match of the fenced patterns, for the tagged or the bare opening
\* marker: the first opening marker followed by a line break, up to the
\* nearest later line break followed by a fence; the group is what lies
\* between.
FencedMatch(text, open) ==
  LET opens == {i \in 1..Len(text) :
                  /\ text[i].t = open
                  /\ i + 3 <= Len(text)
                  /\ text[i + 1].t = "\n"
                  /\ \E j \in (i + 2)..(Len(text) - 1) :
                        text[j].t = "\n" /\ IsFence(text[j + 1])}
  IN  IF opens = {} THEN NoMatch
      ELSE LET i == CHOOSE x \in opens : \A y \in opens : x <= y
               closes == {j \in (i + 2)..(Len(text) - 1) :
                            text[j].t = "\n" /\ IsFence(text[j + 1])}
               j == CHOOSE x \in closes : \A y \in closes : x <= y
           IN  [found |-> TRUE, whole |-> SubSeq(text, i, j + 1),
                group |-> SubSeq(text, i + 2, j - 1)]

\* text.match of the brace pattern: from the first opening brace to the
\* last closing brace.
BraceMatch(text) ==
  LET objs == {i \in 1..Len(text) : IsObjectText(text[i])}
  IN  IF objs = {} THEN NoMatch
      ELSE LET a == CHOOSE x \in objs : \A y \in objs : x <= y
               b == CHOOSE x \in objs : \A y \in objs : x >= y
           IN  [found |-> TRUE, whole |-> SubSeq(text, a, b), group |-> <<>>]

\* jsonMatch ? jsonMatch[1] || jsonMatch[0] : text
ExtractJsonContent(text) ==
  LET m1 == FencedMatch(text, "fence-json")
      m2 == FencedMatch(text, "fence")
      m3 == BraceMatch(text)
      m == IF m1.found THEN m1 ELSE IF m2.found THEN m2 ELSE m3
  IN  IF ~m.found THEN text
      ELSE IF m.group # <<>> THEN m.group ELSE m.whole

RECURSIVE TrimTokensLeft(_)
TrimTokensLeft(toks) ==
  IF toks # <<>> /\ toks[1].t = "\n" THEN TrimTokensLeft(Tail(toks)) ELSE toks

RECURSIVE TrimTokensRight(_)
TrimTokensRight(toks) ==
  IF toks # <<>> /\ toks[Len(toks)].t = "\n"
  THEN TrimTokensRight(SubSeq(toks, 1, Len(toks) - 1)) ELSE toks

TrimTokens(toks) == TrimTokensRight(TrimTokensLeft(toks))

\* JSON.parse: succeeds on the text of exactly one JSON value.
JsonParse(toks) ==
  IF Len(toks) = 1 /\ toks[1].t = "json"
  THEN [ok |-> TRUE, value |-> toks[1].v]
  ELSE [ok |-> FALSE, value |-> NoValue]

\* The cleanup pass: both fence markers removed everywhere, then trim().
CleanFences(toks) ==
  TrimTokens(SelectSeq(toks, LAMBDA tok : ~IsFence(tok)))

\* The own enumerable properties a spread copies: those of an object, none
\* of null.
SpreadFields(value) == IF value.type = "object" THEN value.fields ELSE NoFields

(***************************************************************************)
(* processContentWithGemini: the result for one section.                   *)
(***************************************************************************)
IsChapter(info) == Has(info, "contentType") /\ info.contentType = "chapter"

\* include !== false
NotExcluded(info) == ~(Has(info, "include") /\ info.include = "false")

\* The object built from a parsed response (both parse attempts build it
\* the same way).
ContentInfo(value, section, language) ==
  LET contentInfo ==
        Spread(SpreadFields(value),
               [sourceId |-> section.sourceId, sourceHref |-> section.sourceHref])
      wordCount == countWords(section.content, language)
  IN  IF IsChapter(contentInfo) /\ NotExcluded(contentInfo)
      THEN Spread(contentInfo,
                  [sentences |-> parseSentences(section.content, language),
                   estimatedDuration |-> MinutesString(DurationMinutes(wordCount)),
                   wordCount |-> wordCount,
                   language |-> language])
      ELSE contentInfo

\* ParseErrorResult with the whole response retained.
ParseErrorResultUnbounded(section, text) ==
  [contentType |-> "error",
   sourceId |-> section.sourceId,
   sourceHref |-> section.sourceHref,
   include |-> "false",
   error |-> "JSON parsing failed",
   rawResponse |-> text \o <<Ellipsis>>]

\* The object returned when the second parse fails too.
ParseErrorResult(section, text) ==
  [contentType |-> "error",
   sourceId |-> section.sourceId,
   sourceHref |-> section.sourceHref,
   include |-> "false",
   error |-> "JSON parsing failed",
   rawResponse |-> Substring(text, 0, RawResponseChars) \o <<Ellipsis>>]

\* ApiErrorResult without the include flag.
ApiErrorResultWithoutInclude(section, errorMessage) ==
  [contentType |-> "error",
   sourceId |-> section.sourceId,
   sourceHref |-> section.sourceHref,
   error |-> errorMessage,
   processed |-> "false"]

\* The object returned by the outer catch block.
ApiErrorResult(section, errorMessage) ==
  [contentType |-> "error",
   sourceId |-> section.sourceId,
   sourceHref |-> section.sourceHref,
   include |-> "false",
   error |-> errorMessage,
   processed |-> "false"]

\* The number of JSON.parse calls made on the response of one oracle call:
\* none when the call raised, one when the extracted text parses, else two.
ParseAttempts(outcome) ==
  IF outcome.kind = "raise" THEN 0
  ELSE IF JsonParse(TrimTokens(ExtractJsonContent(outcome.text))).ok THEN 1
  ELSE 2

\* What processContentWithGemini returns once the oracle call has settled.
ProcessedSection(section, language, outcome) ==
  IF outcome.kind = "raise" THEN ApiErrorResult(section, outcome.message)
  ELSE LET jsonContent == ExtractJsonContent(outcome.text)
           first == JsonParse(TrimTokens(jsonContent))
           second == JsonParse(CleanFences(jsonContent))
       IN  IF first.ok THEN ContentInfo(first.value, section, language)
           ELSE IF second.ok THEN ContentInfo(second.value, section, language)
           ELSE ParseErrorResult(section, outcome.text)


(***************************************************************************)
(* calculateTotalDuration of the sequential converter.                     *)
(***************************************************************************)
Unknown == <<"U", "n", "k", "n", "o", "w", "n">>

\* HasCountedDuration with the test include !== false in place of
\* include === undefined || include === true.
HasCountedDurationNotFalse(section) ==
  /\ Has(section, "estimatedDuration")
  /\ section.estimatedDuration # <<>>
  /\ ~(Has(section, "include") /\ section.include = "false")

\* section.estimatedDuration && (include === undefined || include === true)
HasCountedDuration(section) ==
  /\ Has(section, "estimatedDuration")
  /\ section.estimatedDuration # <<>>
  /\ (~Has(section, "include") \/ section.include = "true")

\* The index just after the run of digits that starts at p.
RECURSIVE DigitsEnd(_, _)
DigitsEnd(s, p) ==
  IF p <= Len(s) /\ s[p] \in Digits THEN DigitsEnd(s, p + 1) ELSE p

UnitSeconds(c) == IF c = "h" THEN 3600 ELSE IF c = "m" THEN 60 ELSE 1

\* The exec loop over /(\d+)h\s*|(\d+)m\s*|(\d+)s/g from lastIndex p - 1:
\* the seconds of every match from there on.
RECURSIVE ScanDuration(_, _)
ScanDuration(s, p) ==
  IF p > Len(s) THEN 0
  ELSE LET e == DigitsEnd(s, p)
       IN  IF e > p /\ e <= Len(s) /\ s[e] \in {"h", "m", "s"}
           THEN LET after == IF s[e] = "s" THEN e + 1
                             ELSE e + 1 + LeadingWhitespace(SubSeq(s, e + 1, Len(s)))
                IN  ParseInt(SubSeq(s, p, e - 1)) * UnitSeconds(s[e])
                    + ScanDuration(s, after)
           ELSE ScanDuration(s, p + 1)

\* SumSeconds with the variable seconds declared outside the forEach, so
\* that it is not reset for each section.
RECURSIVE SumSecondsRunningFrom(_, _)
SumSecondsRunningFrom(sections, seconds) ==
  IF sections = <<>> THEN 0
  ELSE LET running == seconds + ScanDuration(sections[1].estimatedDuration, 1)
       IN  running + SumSecondsRunningFrom(Tail(sections), running)

SumSecondsRunning(sections) == SumSecondsRunningFrom(sections, 0)

\* The forEach that adds up the seconds of the retained sections.
RECURSIVE SumSeconds(_)
SumSeconds(sections) ==
  IF sections = <<>> THEN 0
  ELSE ScanDuration(sections[1].estimatedDuration, 1) + SumSeconds(Tail(sections))

\* FormatDuration with the minutes shown only when positive.
FormatDurationPositiveMinutes(totalSeconds) ==
  LET hours == totalSeconds \div 3600
      minutes == (totalSeconds % 3600) \div 60
      seconds == totalSeconds % 60
      h == IF hours > 0 THEN NumToStr(hours) \o <<"h", " ">> ELSE <<>>
      m == IF minutes > 0 THEN NumToStr(minutes) \o <<"m", " ">> ELSE <<>>
  IN  Trim(h \o m \o NumToStr(seconds) \o <<"s">>)

\* The h/m/s formatting of a number of seconds.
FormatDuration(totalSeconds) ==
  LET hours == totalSeconds \div 3600
      minutes == (totalSeconds % 3600) \div 60
      seconds == totalSeconds % 60
      h == IF hours > 0 THEN NumToStr(hours) \o <<"h", " ">> ELSE <<>>
      m == IF minutes > 0 \/ hours > 0 THEN NumToStr(minutes) \o <<"m", " ">> ELSE <<>>
  IN  Trim(h \o m \o NumToStr(seconds) \o <<"s">>)

\* calculateTotalDuration without the early return for an empty selection.
calculateTotalDurationWithoutSentinel(contentSections) ==
  FormatDuration(SumSeconds(SelectSeq(contentSections, HasCountedDuration)))

calculateTotalDuration(contentSections) ==
  LET sectionsWithDuration == SelectSeq(contentSections, HasCountedDuration)
  IN  IF Len(sectionsWithDuration) = 0 THEN Unknown
      ELSE FormatDuration(SumSeconds(sectionsWithDuration))

(***************************************************************************)
(* The final object of the sequential converter (processedAt, a            *)
(* timestamp, is left out).                                                *)
(***************************************************************************)
IncludedSections(processedSections) == SelectSeq(processedSections, NotExcluded)

\* Chapters with the chapters in reverse order.
ChaptersReversed(includedSections) ==
  LET chapters == SelectSeq(includedSections, IsChapter)
  IN  [i \in 1..Len(chapters) |-> chapters[Len(chapters) + 1 - i]]

Chapters(includedSections) == SelectSeq(includedSections, IsChapter)

\* IsFrontMatter with the test contentType !== "chapter" only.
IsFrontMatterNotChapter(info) ==
  ~(Has(info, "contentType") /\ info.contentType = "chapter")

\* contentType !== "chapter" && contentType !== "error"
IsFrontMatter(info) ==
  ~(Has(info, "contentType") /\ info.contentType \in {"chapter", "error"})

FrontMatter(includedSections) == SelectSeq(includedSections, IsFrontMatter)

AudiobookJSON(metadata, processedSections) ==
  LET includedSections == IncludedSections(processedSections)
      chapters == Chapters(includedSections)
  IN  [title |-> metadata.title,
       author |-> metadata.author,
       language |-> metadata.language,
       totalContent |-> Len(includedSections),
       totalChapters |-> Len(chapters),
       estimatedTotalDuration |-> calculateTotalDuration(includedSections),
       chapters |-> chapters,
       frontMatter |-> FrontMatter(includedSections),
       content |-> processedSections]


(***************************************************************************)
(* What the oracle may do with one call: raise, or respond with a text.    *)
(* (It may also never settle the call: see OracleSettles.)                 *)
(***************************************************************************)
\* The response also carries a sourceId and a sourceHref of its own.
ChapterIncluded ==
  [contentType |-> "chapter", chapterNumber |-> 1, title |-> "Ch1", include |-> "true",
   sourceId |-> "forged", sourceHref |-> <<"forged.xhtml">>]

ChapterExcluded == [contentType |-> "chapter", title |-> "Ch2", include |-> "false"]

ChapterIncludeNull == [contentType |-> "chapter", include |-> "null"]

TableOfContents == [contentType |-> "toc", title |-> "Contents"]

ErrorIncluded == [contentType |-> "error", include |-> "true"]

PrefaceWithDuration ==
  [contentType |-> "preface", estimatedDuration |-> <<"4", "5", "s">>, wordCount |-> 7]

\* A response without JSON that is longer than the retained excerpt.
LongProse == [i \in 1..(RawResponseChars + 2) |-> Prose]

OracleTexts ==
  { <<JsonObject(ChapterIncluded)>>,
    <<FenceJson, Newline, JsonObject(ChapterExcluded), Newline, Fence>>,
    <<Fence, Newline, JsonObject(TableOfContents), Newline, Fence>>,
    <<Prose, JsonObject(ErrorIncluded), Prose>>,
    <<JsonObject(PrefaceWithDuration)>>,
    <<JsonObject(ChapterIncludeNull), Newline>>,
    <<FenceJson, JsonNull, Fence>>,
    <<Prose>>,
    LongProse }

OracleOutcomes ==
  {[kind |-> "raise", message |-> "fetch failed", text |-> <<>>]}
    \cup {[kind |-> "text", message |-> "", text |-> t] : t \in OracleTexts}

\* The outcomes the call for a section of a book may have: the long
\* response is given to the call of a book with a single section only.
OracleOutcomesFor(bookSections) ==
  IF Len(bookSections) = 1 THEN OracleOutcomes
  ELSE {outcome \in OracleOutcomes : Len(outcome.text) <= RawResponseChars}

(***************************************************************************)
(* The batched converter: processChapterWithGemini, the batches and its    *)
(* own calculateTotalDuration.  A result is the parsed JSON value itself   *)
(* (it may be null) or an error object.                                    *)
(***************************************************************************)
ChapterJson ==
  [chapterId |-> 1, chapterTitle |-> "One",
   estimatedDuration |-> <<"8", "m", " ", "3", "0", "s">>]

BatchOracleTexts ==
  { <<FenceJson, Newline, JsonObject(ChapterJson), Newline, Fence>>,
    <<JsonNull>>,
    <<Prose>> }

BatchOracleOutcomes ==
  {[kind |-> "raise", message |-> "fetch failed", text |-> <<>>]}
    \cup {[kind |-> "text", message |-> "", text |-> t] : t \in BatchOracleTexts}

ObjectValue(fields) == [type |-> "object", fields |-> fields]

ZeroDuration == <<"0", "m", " ", "0", "s">>

\* The object returned when the second parse fails too.
ChapterParseError(chapter, text) ==
  ObjectValue([chapterId |-> chapter.id,
               chapterTitle |-> chapter.title,
               estimatedDuration |-> ZeroDuration,
               sections |-> <<>>,
               error |-> "JSON parsing failed",
               rawResponse |-> Substring(text, 0, RawResponseChars) \o <<Ellipsis>>])

\* The object returned by the outer catch block.
ChapterApiError(chapter, errorMessage) ==
  ObjectValue([chapterId |-> chapter.id,
               chapterTitle |-> chapter.title,
               estimatedDuration |-> ZeroDuration,
               sections |-> <<>>,
               error |-> errorMessage,
               processed |-> "false"])

\* What processChapterWithGemini returns once the oracle call has settled.
ProcessedChapter(chapter, outcome) ==
  IF outcome.kind = "raise" THEN ChapterApiError(chapter, outcome.message)
  ELSE LET jsonContent == ExtractJsonContent(outcome.text)
           first == JsonParse(TrimTokens(jsonContent))
           second == JsonParse(CleanFences(jsonContent))
       IN  IF first.ok THEN first.value
           ELSE IF second.ok THEN second.value
           ELSE ChapterParseError(chapter, outcome.text)

\* options.batchSize || 3
ConfigBatchSize(optionsBatchSize) ==
  IF optionsBatchSize = 0 THEN DefaultBatchSize ELSE optionsBatchSize

\* Slice with the end index ignored.
SliceToEnd(arr, start, end) ==
  LET n == Len(arr)
      from == IF start < 0 THEN Max(n + start, 0) ELSE IF start > n THEN n ELSE start
  IN  SubSeq(arr, from + 1, n)

\* Array.prototype.slice(start, end): a negative index counts from the end.
Slice(arr, start, end) ==
  LET n == Len(arr)
      from == IF start < 0 THEN Max(n + start, 0) ELSE IF start > n THEN n ELSE start
      to == IF end < 0 THEN Max(n + end, 0) ELSE IF end > n THEN n ELSE end
  IN  SubSeq(arr, from + 1, to)

\* The first match of /(\d+)m\s+(\d+)s/ in s: minutes * 60 + seconds, 0
\* when there is no match.
RECURSIVE MatchMinutesSeconds(_, _)
MatchMinutesSeconds(s, p) ==
  IF p > Len(s) THEN 0
  ELSE LET e == DigitsEnd(s, p)
           w == IF e <= Len(s) THEN LeadingWhitespace(SubSeq(s, e + 1, Len(s))) ELSE 0
           d == e + 1 + w
           f == DigitsEnd(s, d)
       IN  IF /\ e > p /\ e <= Len(s) /\ s[e] = "m"
              /\ w > 0
              /\ f > d /\ f <= Len(s) /\ s[f] = "s"
           THEN ParseInt(SubSeq(s, p, e - 1)) * 60 + ParseInt(SubSeq(s, d, f - 1))
           ELSE MatchMinutesSeconds(s, p + 1)

RECURSIVE SumChapterSeconds(_)
SumChapterSeconds(chapters) ==
  IF chapters = <<>> THEN 0
  ELSE MatchMinutesSeconds(chapters[1].fields.estimatedDuration, 1)
       + SumChapterSeconds(Tail(chapters))

CalculationError ==
  <<"C", "a", "l", "c", "u", "l", "a", "t", "i", "o", "n", " ", "E", "r", "r", "o", "r">>

\* calculateTotalDuration of the batched converter.  Reading a property of
\* null throws, which its catch block turns into "Calculation Error".
calculateTotalDurationBatched(chapters) ==
  IF \E i \in 1..Len(chapters) : chapters[i].type = "null" THEN CalculationError
  ELSE LET chaptersWithDuration ==
             SelectSeq(chapters,
                       LAMBDA ch : Has(ch.fields, "estimatedDuration")
                                   /\ ch.fields.estimatedDuration # <<>>)
       IN  IF Len(chaptersWithDuration) = 0 THEN Unknown
           ELSE FormatDuration(SumChapterSeconds(chaptersWithDuration))

BatchedAudiobookJSON(metadata, processedChapters) ==
  [title |-> metadata.title,
   author |-> metadata.author,
   totalChapters |-> Len(processedChapters),
   estimatedTotalDuration |-> calculateTotalDurationBatched(processedChapters),
   chapters |-> processedChapters]

\* The object pushed to chapters by the batched converter's extraction.
Chapter(a, k, chapterIndex) ==
  LET manifestItem == getManifestItems(a)[k]
  IN  [id |-> chapterIndex,
       title |-> <<"C", "h", "a", "p", "t", "e", "r", " ">> \o NumToStr(chapterIndex + 1),
       content |-> cleanHtml(RawContent(PathJoin(Dirname(a.fullPath), manifestItem.href)))]

\* options.batchSize as the caller may give it: 0 stands for not given.
BatchSizeOptions == {0, 1, 2, -1}

(***************************************************************************)
(* State.                                                                  *)
(***************************************************************************)
VARIABLES
  converter,          \* which converter runs: "sequential" or "batched"
  archive,            \* options.epub: the archive given to the conversion
  options,            \* the other caller-supplied options (batchSize)
  pc,                 \* the position of the conversion
  thrown,             \* the error the conversion rejected with (NoError: none)
  spineIdx,           \* the spine itemref the extraction loop is at (1-based)
  sections,           \* the sections (chapters) extracted so far
  sectionSpine,       \* history: the spine position each section came from
  bookMetadata,       \* title, author (and language) of the package document
  procIdx,            \* sequential: the loop variable i of the classification loop
  pending,            \* the ids of the sections whose oracle call has not settled
  oracleLog,          \* history: the oracle calls issued, in order
  outcomes,           \* history: section id -> how its call settled
  parses,             \* history: section id -> the JSON.parse calls on its response
  events,             \* history: the calls started and settled and the delays, in order
  processedSections,  \* sequential: the results collected so far
  splitIdx,           \* batched: the loop variable i of the splitting loop
  batches,            \* batched: the batches built so far
  batchIdx,           \* batched: the loop variable i of the batch loop
  batchResults,       \* batched: section id -> result, for the current batch
  results,            \* batched: the results collected so far
  document,           \* the object the conversion resolved with
  durationUnits,      \* the argument of a call of calculateTotalDuration
  durationTotal,      \* what that call returned
  segText,            \* the text argument of a call of parseSentences
  segLanguage,        \* the language argument of that call
  segSentences,       \* what that call returned
  estText,            \* the content of a chapter whose duration is estimated
  estLanguage,        \* the language of the book
  estWordCount,       \* the wordCount computed for it
  estDuration         \* the estimatedDuration computed for it

vars ==
  << converter, archive, options, pc, thrown, spineIdx, sections, sectionSpine,
     bookMetadata, procIdx, pending, oracleLog, outcomes, parses, events,
     processedSections,
     splitIdx, batches, batchIdx, batchResults, results, document,
     durationUnits, durationTotal, segText, segLanguage, segSentences,
     estText, estLanguage, estWordCount, estDuration >>

aggregatorVars == << durationUnits, durationTotal >>

segmenterVars == << segText, segLanguage, segSentences >>

estimateVars == << estText, estLanguage, estWordCount, estDuration >>

extractionVars == << spineIdx, sections, sectionSpine, bookMetadata >>

sequentialVars == << procIdx, processedSections >>

batchedVars == << splitIdx, batches, batchIdx, batchResults, results >>

oracleVars == << pending, oracleLog, outcomes, parses, events >>

inputVars == << converter, archive, options >>

NoDocument == NoFields

NoOutcomes == [id \in {} |-> NoFields]

NoParses == [id \in {} |-> 0]

Init ==
  /\ \/ converter = "sequential" /\ options = [batchSize |-> 0]
     \/ converter = "batched" /\ options \in [batchSize : BatchSizeOptions]
  /\ archive \in Archives
  /\ pc = "start"
  /\ thrown = NoError
  /\ spineIdx = 1
  /\ sections = <<>>
  /\ sectionSpine = <<>>
  /\ bookMetadata = NoFields
  /\ procIdx = 0
  /\ pending = {}
  /\ oracleLog = <<>>
  /\ outcomes = NoOutcomes
  /\ parses = NoParses
  /\ events = <<>>
  /\ processedSections = <<>>
  /\ splitIdx = 0
  /\ batches = <<>>
  /\ batchIdx = 0
  /\ batchResults = NoOutcomes
  /\ results = <<>>
  /\ document = NoDocument
  /\ durationUnits = <<>>
  /\ durationTotal = <<>>
  /\ segText = <<>>
  /\ segLanguage = <<>>
  /\ segSentences = <<>>
  /\ estText = <<>>
  /\ estLanguage = <<>>
  /\ estWordCount = 0
  /\ estDuration = <<>>

(***************************************************************************)
(* extractTextFromEpub (the same in both converters, up to the fields of   *)
(* the extracted objects).                                                 *)
(***************************************************************************)
\* ExtractableItem without the test that the archive holds the resolved path.
ExtractableItemUnchecked(a, idref) ==
  LET items == getManifestItems(a)
      k == IF idref = "" THEN 0 ELSE FindItem(items, idref)
  IN  IF k = 0 THEN 0
      ELSE IF ~IncludesHtml(items[k].mediaType) THEN 0
      ELSE k

\* The index in manifestItems of the item a spine itemref leads to, 0 when
\* the itemref is skipped.
ExtractableItem(a, idref) ==
  LET items == getManifestItems(a)
      k == IF idref = "" THEN 0 ELSE FindItem(items, idref)
  IN  IF k = 0 THEN 0
      ELSE IF ~IncludesHtml(items[k].mediaType) THEN 0
      ELSE IF PathJoin(Dirname(a.fullPath), items[k].href) \notin a.entries THEN 0
      ELSE k

\* The object pushed to sections by the sequential converter.
Section(a, idref, k, sectionIndex) ==
  LET manifestItem == getManifestItems(a)[k]
  IN  [id |-> sectionIndex,
       sourceId |-> idref,
       sourceHref |-> manifestItem.href,
       title |-> "",
       content |-> cleanHtml(RawContent(PathJoin(Dirname(a.fullPath), manifestItem.href)))]

\* What the conversion does with an error caught by its outer catch block:
\* it reports it and throws it again.
Rethrow(error) == error

OpenArchive ==
  /\ pc = "start"
  /\ LET fault == ArchiveFault(archive)
     IN  IF fault # NoFault
         THEN /\ thrown' = Rethrow(ExtractionError(fault))
              /\ pc' = "failed"
         ELSE /\ pc' = "spine"
              /\ UNCHANGED thrown
  /\ UNCHANGED << aggregatorVars, segmenterVars, estimateVars, inputVars, extractionVars, sequentialVars, batchedVars,
                  oracleVars, document >>

ExtractSpineItem ==
  /\ pc = "spine"
  /\ spineIdx <= Len(archive.spine)
  /\ LET idref == archive.spine[spineIdx]
         k == ExtractableItem(archive, idref)
     IN  IF k = 0
         THEN UNCHANGED << sections, sectionSpine >>
         ELSE /\ sections' =
                   Append(sections,
                          IF converter = "sequential"
                          THEN Section(archive, idref, k, Len(sections))
                          ELSE Chapter(archive, k, Len(sections)))
              /\ sectionSpine' = Append(sectionSpine, spineIdx)
  /\ spineIdx' = spineIdx + 1
  /\ UNCHANGED << aggregatorVars, segmenterVars, estimateVars, inputVars, pc, thrown, bookMetadata, sequentialVars,
                  batchedVars, oracleVars, document >>

ReturnBookContent ==
  /\ pc = "spine"
  /\ spineIdx > Len(archive.spine)
  /\ IF converter = "sequential"
     THEN /\ bookMetadata' = [title |-> BookTitle(archive),
                              author |-> BookAuthor(archive),
                              language |-> BookLanguage(archive)]
          /\ pc' = "classify"
     ELSE /\ bookMetadata' = [title |-> BookTitle(archive),
                              author |-> BookAuthor(archive)]
          /\ pc' = "split"
  /\ UNCHANGED << aggregatorVars, segmenterVars, estimateVars, inputVars, thrown, spineIdx, sections, sectionSpine,
                  sequentialVars, batchedVars, oracleVars, document >>

(***************************************************************************)
(* The classification loop of the sequential converter.                    *)
(***************************************************************************)
\* An entry of the history of calls and delays.
NoSection == 0 - 1

Event(kind, id) == [kind |-> kind, section |-> id]

\* The call of model.generateContent for one section.
OracleCall(section, sampleChars) ==
  [section |-> section.id,
   sample |-> Substring(section.content, 0, sampleChars)]

\* MoreSections with the loop stopping one section early.
MoreSectionsButLast(i, sectionList) == i < Len(sectionList) - 1

\* The condition of the classification loop: i < bookContent.sections.length
MoreSections(i, sectionList) == i < Len(sectionList)

CallOracle ==
  /\ converter = "sequential"
  /\ pc = "classify"
  /\ MoreSections(procIdx, sections)
  /\ pending' = pending \cup {procIdx}
  /\ oracleLog' = Append(oracleLog, OracleCall(sections[procIdx + 1], PromptSampleChars))
  /\ events' = Append(events, Event("started", procIdx))
  /\ pc' = "await"
  /\ UNCHANGED << aggregatorVars, segmenterVars, estimateVars, inputVars, thrown, extractionVars, sequentialVars, batchedVars,
                  outcomes, parses, document >>

\* The awaited call settles.  Nothing in the code bounds the wait, so the
\* step is the oracle's and may never happen.
OracleSettles ==
  /\ converter = "sequential"
  /\ pc = "await"
  /\ \E outcome \in OracleOutcomesFor(sections) :
       /\ processedSections' =
            Append(processedSections,
                   ProcessedSection(sections[procIdx + 1], bookMetadata.language, outcome))
       /\ outcomes' = (procIdx :> outcome) @@ outcomes
       /\ parses' = (procIdx :> ParseAttempts(outcome)) @@ parses
  /\ events' = Append(events, Event("settled", procIdx))
  /\ pending' = pending \ {procIdx}
  /\ procIdx' = procIdx + 1
  /\ pc' = "classify"
  /\ UNCHANGED << aggregatorVars, segmenterVars, estimateVars, inputVars, thrown, extractionVars, batchedVars, oracleLog,
                  document >>

Assemble ==
  /\ converter = "sequential"
  /\ pc = "classify"
  /\ ~MoreSections(procIdx, sections)
  /\ document' = AudiobookJSON(bookMetadata, processedSections)
  /\ pc' = "done"
  /\ UNCHANGED << aggregatorVars, segmenterVars, estimateVars, inputVars, thrown, extractionVars, sequentialVars, batchedVars,
                  oracleVars >>

(***************************************************************************)
(* processBatchesWithDelay of the batched converter.                       *)
(***************************************************************************)
\* One iteration of the loop that splits the chapters into batches.  The
\* model follows the loop for at most MaxSplitSteps iterations.
SplitBatch ==
  /\ converter = "batched"
  /\ pc = "split"
  /\ splitIdx < Len(sections)
  /\ Len(batches) < MaxSplitSteps
  /\ LET batchSize == ConfigBatchSize(options.batchSize)
     IN  /\ batches' = Append(batches, Slice(sections, splitIdx, splitIdx + batchSize))
         /\ splitIdx' = splitIdx + batchSize
  /\ UNCHANGED << aggregatorVars, segmenterVars, estimateVars, inputVars, pc, thrown, extractionVars, sequentialVars, batchIdx,
                  batchResults, results, oracleVars, document >>

SplitDone ==
  /\ converter = "batched"
  /\ pc = "split"
  /\ splitIdx >= Len(sections)
  /\ pc' = "batch"
  /\ UNCHANGED << aggregatorVars, segmenterVars, estimateVars, inputVars, thrown, extractionVars, sequentialVars, batchedVars,
                  oracleVars, document >>

\* batches[i].map(...): every chapter of the batch gets its oracle call, in
\* batch order, before any of them settles.
StartBatch ==
  /\ converter = "batched"
  /\ pc = "batch"
  /\ batchIdx < Len(batches)
  /\ LET batch == batches[batchIdx + 1]
     IN  /\ pending' = pending \cup {batch[k].id : k \in 1..Len(batch)}
         /\ oracleLog' = oracleLog
              \o [k \in 1..Len(batch) |-> OracleCall(batch[k], BatchPromptSampleChars)]
         /\ events' = events \o [k \in 1..Len(batch) |-> Event("started", batch[k].id)]
  /\ batchResults' = NoOutcomes
  /\ pc' = "inflight"
  /\ UNCHANGED << aggregatorVars, segmenterVars, estimateVars, inputVars, thrown, extractionVars, sequentialVars, splitIdx,
                  batches, batchIdx, results, outcomes, parses, document >>

\* One call of the batch settles; the calls settle in any order.
ChapterSettles ==
  /\ converter = "batched"
  /\ pc = "inflight"
  /\ \E id \in pending, outcome \in BatchOracleOutcomes :
       /\ batchResults' = (id :> ProcessedChapter(sections[id + 1], outcome)) @@ batchResults
       /\ outcomes' = (id :> outcome) @@ outcomes
       /\ parses' = (id :> ParseAttempts(outcome)) @@ parses
       /\ events' = Append(events, Event("settled", id))
       /\ pending' = pending \ {id}
  /\ UNCHANGED << aggregatorVars, segmenterVars, estimateVars, inputVars, pc, thrown, extractionVars, sequentialVars, splitIdx,
                  batches, batchIdx, results, oracleLog, document >>

\* CollectBatch going on to the next batch without the delay.
CollectBatchWithoutDelay ==
  /\ converter = "batched"
  /\ pc = "inflight"
  /\ pending = {}
  /\ LET batch == batches[batchIdx + 1]
     IN  results' = results \o [k \in 1..Len(batch) |-> batchResults[batch[k].id]]
  /\ pc' = "batch"
  /\ batchIdx' = batchIdx + 1
  /\ UNCHANGED << aggregatorVars, segmenterVars, estimateVars, inputVars, thrown, extractionVars, sequentialVars, splitIdx,
                  batches, batchResults, oracleVars, document >>

\* CollectBatch with the results taken in the order the calls settled in.
CollectBatchInSettleOrder ==
  /\ converter = "batched"
  /\ pc = "inflight"
  /\ pending = {}
  /\ LET batch == batches[batchIdx + 1]
         settled == SubSeq(events, Len(events) - Len(batch) + 1, Len(events))
     IN  results' = results \o [k \in 1..Len(batch) |-> batchResults[settled[k].section]]
  /\ IF batchIdx < Len(batches) - 1
     THEN pc' = "delay" /\ UNCHANGED batchIdx
     ELSE pc' = "batch" /\ batchIdx' = batchIdx + 1
  /\ UNCHANGED << aggregatorVars, segmenterVars, estimateVars, inputVars, thrown, extractionVars, sequentialVars, splitIdx,
                  batches, batchResults, oracleVars, document >>

\* Promise.all resolves with the results in batch order; a delay follows
\* unless this was the last batch.
CollectBatch ==
  /\ converter = "batched"
  /\ pc = "inflight"
  /\ pending = {}
  /\ LET batch == batches[batchIdx + 1]
     IN  results' = results \o [k \in 1..Len(batch) |-> batchResults[batch[k].id]]
  /\ IF batchIdx < Len(batches) - 1
     THEN pc' = "delay" /\ UNCHANGED batchIdx
     ELSE pc' = "batch" /\ batchIdx' = batchIdx + 1
  /\ UNCHANGED << aggregatorVars, segmenterVars, estimateVars, inputVars, thrown, extractionVars, sequentialVars, splitIdx,
                  batches, batchResults, oracleVars, document >>

DelayElapses ==
  /\ converter = "batched"
  /\ pc = "delay"
  /\ batchIdx' = batchIdx + 1
  /\ events' = Append(events, Event("delayed", NoSection))
  /\ pc' = "batch"
  /\ UNCHANGED << aggregatorVars, segmenterVars, estimateVars, inputVars, thrown, extractionVars, sequentialVars, splitIdx,
                  batches, batchResults, results, pending, oracleLog, outcomes, parses,
                  document >>

\* The final object is built and written to the output file; a failing
\* write is caught by the outer catch block and thrown again.
SaveAndReturn ==
  /\ converter = "batched"
  /\ pc = "batch"
  /\ batchIdx >= Len(batches)
  /\ \E written \in BOOLEAN :
       IF written
       THEN /\ document' = BatchedAudiobookJSON(bookMetadata, results)
            /\ pc' = "done"
            /\ UNCHANGED thrown
       ELSE /\ thrown' = Rethrow([name |-> "Error", message |-> <<"write failed">>])
            /\ pc' = "failed"
            /\ UNCHANGED document
  /\ UNCHANGED << aggregatorVars, segmenterVars, estimateVars, inputVars, extractionVars, sequentialVars, batchedVars,
                  oracleVars >>

Next ==
  \/ OpenArchive
  \/ ExtractSpineItem
  \/ ReturnBookContent
  \/ CallOracle
  \/ OracleSettles
  \/ Assemble
  \/ SplitBatch
  \/ SplitDone
  \/ StartBatch
  \/ ChapterSettles
  \/ CollectBatch
  \/ DelayElapses
  \/ SaveAndReturn

Spec == Init /\ [][Next]_vars


(***************************************************************************)
(* The sequential converter alone, with the fairness its scheduling gives: *)
(* every step of the program that can be taken is eventually taken (the    *)
(* steps are synchronous code or continuations of settled promises).  The  *)
(* settling of an oracle call is the oracle's step and carries no          *)
(* fairness: the code passes no timeout and no cancellation to             *)
(* model.generateContent.                                                  *)
(***************************************************************************)
SequentialInit == Init /\ converter = "sequential"

SequentialNext ==
  \/ OpenArchive
  \/ ExtractSpineItem
  \/ ReturnBookContent
  \/ CallOracle
  \/ OracleSettles
  \/ Assemble

SequentialProgramStep ==
  \/ OpenArchive
  \/ ExtractSpineItem
  \/ ReturnBookContent
  \/ CallOracle
  \/ Assemble

FairSpec ==
  /\ SequentialInit
  /\ [][SequentialNext]_vars
  /\ WF_vars(SequentialProgramStep)

(***************************************************************************)
(* calculateTotalDuration (sequential converter) applied to a list of      *)
(* units drawn from a bounded set.                                         *)
(***************************************************************************)
DurationStrings ==
  { <<"1", "h", " ", "5", "m", " ", "3", "0", "s">>,
    <<"4", "5", "s">>,
    <<"1", "h", "3", "0", "s">>,
    <<"6", "0", "m">>,
    <<"7", " ", "m">>,
    <<"s", "o", "o", "n">>,
    <<>> }

DurationUnits ==
  {[contentType |-> "chapter"]}
    \cup {[contentType |-> "chapter", estimatedDuration |-> d] : d \in DurationStrings}
    \cup {[contentType |-> "chapter", estimatedDuration |-> d, include |-> i] :
            d \in DurationStrings, i \in {"true", "false"}}
    \cup {[contentType |-> "chapter", estimatedDuration |-> <<"4", "5", "s">>,
           include |-> "null"]}

DurationInit ==
  /\ Init
  /\ converter = "sequential"
  /\ archive = WellFormed(<<>>)

AddDurationUnit ==
  /\ pc = "start"
  /\ Len(durationUnits) < MaxUnits
  /\ \E unit \in DurationUnits : durationUnits' = Append(durationUnits, unit)
  /\ UNCHANGED << durationTotal, segmenterVars, estimateVars, inputVars, pc, thrown, extractionVars,
                  sequentialVars, batchedVars, oracleVars, document >>

CallCalculateTotalDuration ==
  /\ pc = "start"
  /\ durationTotal' = calculateTotalDuration(durationUnits)
  /\ pc' = "aggregated"
  /\ UNCHANGED << durationUnits, segmenterVars, estimateVars, inputVars, thrown, extractionVars,
                  sequentialVars, batchedVars, oracleVars, document >>

\* calculateTotalDuration applied to a single unit whose duration is the
\* total just returned.
ReaggregateTotal ==
  /\ pc = "aggregated"
  /\ durationTotal # Unknown
  /\ LET unit == [contentType |-> "chapter", estimatedDuration |-> durationTotal]
     IN  /\ durationUnits' = <<unit>>
         /\ durationTotal' = calculateTotalDuration(<<unit>>)
  /\ pc' = "reaggregated"
  /\ UNCHANGED << segmenterVars, estimateVars, inputVars, thrown, extractionVars,
                  sequentialVars, batchedVars, oracleVars, document >>

DurationNext == AddDurationUnit \/ CallCalculateTotalDuration \/ ReaggregateTotal

DurationSpec == DurationInit /\ [][DurationNext]_vars


(***************************************************************************)
(* parseSentences applied to a text and a language drawn from bounded      *)
(* sets.                                                                   *)
(***************************************************************************)
TextCharacters == {".", "!", "?", "U+3002", " ", "A", "b", "U+00BF"}

Languages ==
  { <<>>, <<"e", "n">>, <<"E", "S">>, <<"d", "e", "-", "D", "E">>,
    <<"z", "h">>, <<"j", "a">>, <<"k", "o">>, <<"t", "r">> }

SegmenterInit ==
  /\ Init
  /\ converter = "sequential"
  /\ archive = WellFormed(<<>>)

AddTextCharacter ==
  /\ pc = "start"
  /\ Len(segText) < MaxTextLen
  /\ \E c \in TextCharacters : segText' = Append(segText, c)
  /\ UNCHANGED << segLanguage, segSentences, aggregatorVars, estimateVars, inputVars, pc, thrown,
                  extractionVars, sequentialVars, batchedVars, oracleVars, document >>

CallParseSentences ==
  /\ pc = "start"
  /\ \E language \in Languages :
       /\ segLanguage' = language
       /\ segSentences' = parseSentences(segText, language)
  /\ pc' = "segmented"
  /\ UNCHANGED << segText, aggregatorVars, estimateVars, inputVars, thrown, extractionVars,
                  sequentialVars, batchedVars, oracleVars, document >>

SegmenterNext == AddTextCharacter \/ CallParseSentences

SegmenterSpec == SegmenterInit /\ [][SegmenterNext]_vars


(***************************************************************************)
(* The word count and the duration estimate of a chapter, applied to       *)
(* cleaned contents of bounded length: a short run of characters followed  *)
(* by words, single spaces between.                                        *)
(***************************************************************************)
PrefixCharacters == {"b", "U+4E2D"}

EstimateLanguages ==
  { <<>>, <<"e", "n">>, <<"Z", "H", "-", "C", "N">>, <<"k", "o">> }

EstimateInit ==
  /\ Init
  /\ converter = "sequential"
  /\ archive = WellFormed(<<>>)

AddPrefixCharacter ==
  /\ pc = "start"
  /\ Len(estText) < MaxPrefixLen
  /\ \E c \in PrefixCharacters : estText' = Append(estText, c)
  /\ UNCHANGED << estLanguage, estWordCount, estDuration, aggregatorVars, segmenterVars,
                  inputVars, pc, thrown, extractionVars, sequentialVars, batchedVars,
                  oracleVars, document >>

AddWord ==
  /\ pc = "start"
  /\ Len(estText) < 2 * MaxWords - 1
  /\ estText' = IF estText = <<>> THEN <<"a">> ELSE estText \o <<" ", "a">>
  /\ UNCHANGED << estLanguage, estWordCount, estDuration, aggregatorVars, segmenterVars,
                  inputVars, pc, thrown, extractionVars, sequentialVars, batchedVars,
                  oracleVars, document >>

\* const wordCount = countWords(section.content, language);
\* const durationMinutes = Math.max(1, Math.round(wordCount / 150));
\* estimatedDuration = `${durationMinutes}m 0s`
EstimateChapter ==
  /\ pc = "start"
  /\ \E language \in EstimateLanguages :
       LET wordCount == countWords(estText, language)
       IN  /\ estLanguage' = language
           /\ estWordCount' = wordCount
           /\ estDuration' = MinutesString(DurationMinutes(wordCount))
  /\ pc' = "estimated"
  /\ UNCHANGED << estText, aggregatorVars, segmenterVars, inputVars, thrown,
                  extractionVars, sequentialVars, batchedVars, oracleVars, document >>

EstimateNext == AddPrefixCharacter \/ AddWord \/ EstimateChapter

EstimateSpec == EstimateInit /\ [][EstimateNext]_vars

(***************************************************************************)
(* Properties.                                                             *)
(***************************************************************************)
Finished == converter = "sequential" /\ pc = "done"

IsErrorUnit(unit) == Has(unit, "contentType") /\ unit.contentType = "error"

RECURSIVE IsSubseq(_, _)
IsSubseq(sub, full) ==
  IF sub = <<>> THEN TRUE
  ELSE IF full = <<>> THEN FALSE
  ELSE IF sub[1] = full[1] THEN IsSubseq(Tail(sub), Tail(full))
  ELSE IsSubseq(sub, Tail(full))

StrictlyIncreasing(s) == \A i, j \in 1..Len(s) : i < j => s[i] < s[j]

\* C1: the extracted units are in spine order at every moment, and in the
\* Document the content list has the units in that order, one entry per
\* extracted unit, while chapters and frontMatter are content with entries
\* removed and none reordered.
C1_SpineOrderPreserved ==
  /\ StrictlyIncreasing(sectionSpine)
  /\ Len(sectionSpine) = Len(sections)
  /\ converter = "sequential" =>
       \A i \in 1..Len(sections) : sections[i].sourceId = archive.spine[sectionSpine[i]]
  /\ Finished =>
       /\ Len(document.content) = Len(sectionSpine)
       /\ \A i \in 1..Len(sectionSpine) :
            document.content[i].sourceId = archive.spine[sectionSpine[i]]
       /\ IsSubseq(document.chapters, document.content)
       /\ IsSubseq(document.frontMatter, document.content)

\* C1 witness: a Document with two chapters of different spine items and a
\* front-matter unit, from a spine of three.
C1_TwoChaptersInOrder ==
  /\ Finished
  /\ Len(archive.spine) = 3
  /\ Len(document.chapters) = 2
  /\ document.chapters[1].sourceId # document.chapters[2].sourceId
  /\ Len(document.frontMatter) = 1

\* C2: in the Document every content unit of type "error" has include
\* false, whatever the oracle returned.
C2_ErrorUnitsExcluded ==
  Finished =>
    \A i \in 1..Len(document.content) :
      IsErrorUnit(document.content[i]) =>
        (Has(document.content[i], "include") /\ document.content[i].include = "false")


EnrichmentFields == {"sentences", "wordCount", "estimatedDuration"}

\* C3: in the Document a unit carries sentences, wordCount or
\* estimatedDuration only if it is a chapter whose include flag is not false,
\* whatever the oracle returned.
C3_OnlyIncludedChaptersEnriched ==
  Finished =>
    \A i \in 1..Len(document.content) :
      (DOMAIN document.content[i]) \cap EnrichmentFields # {} =>
        (IsChapter(document.content[i]) /\ NotExcluded(document.content[i]))

\* The oracle's call for a unit failed: it raised, or its text could not be
\* parsed even after the cleanup pass.
ClassificationFailed(outcome) ==
  \/ outcome.kind = "raise"
  \/ /\ outcome.kind = "text"
     /\ ~JsonParse(TrimTokens(ExtractJsonContent(outcome.text))).ok
     /\ ~JsonParse(CleanFences(ExtractJsonContent(outcome.text))).ok

\* The entries of content whose classification did not fail, in order.
RECURSIVE SucceededUnits(_, _)
SucceededUnits(content, i) ==
  IF i > Len(content) THEN <<>>
  ELSE (IF ClassificationFailed(outcomes[i - 1]) THEN <<>> ELSE <<content[i]>>)
       \o SucceededUnits(content, i + 1)

\* C4: a unit whose classification failed is an "error" unit with include
\* false, is in neither chapters nor frontMatter, and counts neither in
\* totalChapters nor in the total duration: these are what the units that
\* did not fail give alone.  Every unit's result depends on its own section
\* and its own oracle outcome only.
C4_FailedUnitIsolated ==
  Finished =>
    LET content == document.content
        succeeded == IncludedSections(SucceededUnits(content, 1))
    IN  /\ \A i \in 1..Len(content) :
             /\ ClassificationFailed(outcomes[i - 1]) =>
                  /\ IsErrorUnit(content[i])
                  /\ Has(content[i], "include") /\ content[i].include = "false"
                  /\ \A k \in 1..Len(document.chapters) : document.chapters[k] # content[i]
                  /\ \A k \in 1..Len(document.frontMatter) :
                       document.frontMatter[k] # content[i]
             /\ content[i] =
                  ProcessedSection(sections[i], bookMetadata.language, outcomes[i - 1])
        /\ document.chapters = SelectSeq(succeeded, IsChapter)
        /\ document.frontMatter = SelectSeq(succeeded, IsFrontMatter)
        /\ document.totalChapters = Len(SelectSeq(succeeded, IsChapter))
        /\ document.estimatedTotalDuration = calculateTotalDuration(succeeded)

\* C4 witness: three units, the second got unparseable text, the other two
\* are chapters of the Document.
C4_OneFailedAmongThree ==
  /\ Finished
  /\ Len(document.content) = 3
  /\ outcomes[1].kind = "text" /\ ClassificationFailed(outcomes[1])
  /\ ~ClassificationFailed(outcomes[0]) /\ ~ClassificationFailed(outcomes[2])
  /\ document.totalChapters = 2
  /\ document.estimatedTotalDuration # Unknown

\* C5: in the sequential converter the k-th oracle call is for the k-th
\* extracted unit, no call is issued twice or skipped, the conversion fails
\* only at the archive stage (never once the classification loop runs: every
\* call that settles, however it settles, adds one result and moves the loop
\* to the next unit), and the Document has one content entry per extracted
\* unit, each with its call.
C5_EveryUnitClassifiedOnce ==
  converter = "sequential" =>
    /\ \A k \in 1..Len(oracleLog) : oracleLog[k].section = k - 1
    /\ Len(oracleLog) <= Len(sections)
    /\ pc = "failed" => (oracleLog = <<>> /\ ArchiveFault(archive) # NoFault)
    /\ pc \in {"classify", "await", "done"} =>
         /\ Len(processedSections) = procIdx
         /\ Len(oracleLog) = procIdx + (IF pc = "await" THEN 1 ELSE 0)
    /\ pc = "done" =>
         /\ Len(oracleLog) = Len(sections)
         /\ Len(document.content) = Len(sections)
         /\ \A i \in 1..Len(sections) :
              /\ document.content[i].sourceId = sections[i].sourceId
              /\ (i - 1) \in DOMAIN outcomes

\* C5 witness: a Document of three units whose first call raised and whose
\* second call returned unparseable text.
C5_DoneAfterFailures ==
  /\ Finished
  /\ Len(document.content) = 3
  /\ outcomes[0].kind = "raise"
  /\ outcomes[1].kind = "text" /\ ClassificationFailed(outcomes[1])
  /\ ~ClassificationFailed(outcomes[2])


ContainerPath == <<"META-INF", "container.xml">>

\* The archive has one of the defects of the archive stage.
ArchiveStageFails(a) ==
  \/ ~a.zipOk
  \/ ContainerPath \notin a.entries
  \/ ~a.hasRootfile
  \/ a.fullPath = <<>>
  \/ a.fullPath \notin a.entries

\* C6: for an archive with a defect of the archive stage the conversion
\* goes from its start to failure only: it never returns a Document and
\* never issues an oracle call, neither before nor after failing, and it
\* extracts no unit.
C6_ArchiveFailureIsFatal ==
  ArchiveStageFails(archive) =>
    /\ pc \in {"start", "failed"}
    /\ pc = "failed" => thrown # NoError
    /\ document = NoDocument
    /\ oracleLog = <<>>
    /\ pending = {}
    /\ sections = <<>>

\* C6 witness: the conversion of an archive whose container.xml has no
\* rootfile element has failed.
C6_FailedWithoutRootfile ==
  /\ pc = "failed"
  /\ ~archive.hasRootfile
  /\ thrown # NoError

ExtractionPrefix == "Failed to extract EPUB content: "

\* The failure class a caller reads off the cause carried by the error.
FailureClass(error) ==
  LET cause == Tail(error.message)
  IN  IF cause = <<>> THEN "none"
      ELSE IF cause[1] \in {"Invalid EPUB: Missing container.xml",
                            "Invalid EPUB: Cannot find rootfile in container.xml",
                            "Invalid EPUB: Missing OPF path"}
      THEN "MalformedContainer"
      ELSE IF cause[1] = "Invalid EPUB: Missing OPF file at "
      THEN "MissingPackageDocument"
      ELSE "other"

\* The failure class the defect of a readable archive belongs to.
DefectClass(a) ==
  IF ContainerPath \notin a.entries \/ ~a.hasRootfile \/ a.fullPath = <<>>
  THEN "MalformedContainer"
  ELSE IF a.fullPath \notin a.entries THEN "MissingPackageDocument"
  ELSE "none"

\* C7: the error of a conversion that failed at the archive stage is an
\* extraction failure (its message starts with the extraction prefix) that
\* carries the message of its cause, and the cause tells the class of the
\* defect: MalformedContainer for a missing container.xml, a missing
\* rootfile or a missing full-path, MissingPackageDocument (with the path)
\* for a package document absent at the referenced path.
C7_CauseCarriedAndDistinct ==
  (pc = "failed" /\ ArchiveStageFails(archive)) =>
    /\ thrown.message # <<>>
    /\ thrown.message[1] = ExtractionPrefix
    /\ Tail(thrown.message) # <<>>
    /\ archive.zipOk =>
         /\ FailureClass(thrown) = DefectClass(archive)
         /\ DefectClass(archive) = "MissingPackageDocument" =>
              Tail(Tail(thrown.message)) = archive.fullPath

\* C7 witness: a conversion failed because the package document is absent
\* at the path container.xml gives.
C7_FailedMissingPackageDocument ==
  /\ pc = "failed"
  /\ archive.zipOk
  /\ DefectClass(archive) = "MissingPackageDocument"
  /\ FailureClass(thrown) = "MissingPackageDocument"

\* C8: the conversion terminates even when the oracle never responds: while
\* a call is awaited the converter has a step of its own to take (giving the
\* call up and recording an error unit), so that reaching the end never
\* depends on a step of the oracle.
C8_AwaitedCallCanBeGivenUp ==
  (converter = "sequential" /\ pc = "await") => ENABLED SequentialProgramStep

\* C9: the number of oracle calls in flight is at most 1 in the sequential
\* converter and at most the configured batch size (3 when none is given)
\* in the batched converter, however many units there are.  (With a
\* negative batch size no call is ever issued.)
C9_BoundedCallsInFlight ==
  /\ converter = "sequential" => Cardinality(pending) <= 1
  /\ converter = "batched" =>
       Cardinality(pending) <= Max(ConfigBatchSize(options.batchSize), 0)
  /\ (converter = "batched" /\ options.batchSize = 0) =>
       Cardinality(pending) <= 3

\* C9 witness: the batched converter with batch size 2 and three units has
\* two calls in flight.
C9_FullBatchInFlight ==
  /\ converter = "batched"
  /\ options.batchSize = 2
  /\ Len(sections) = 3
  /\ Cardinality(pending) = 2


\* The seconds of the hour/minute/second tokens of a duration string: a
\* token is a maximal run of digits immediately followed by h, m or s.
RECURSIVE TokenSeconds(_, _)
TokenSeconds(s, p) ==
  IF p < 2 THEN 0
  ELSE (IF s[p] \in {"h", "m", "s"} /\ s[p - 1] \in Digits
        THEN LET a == CHOOSE k \in 1..(p - 1) :
                        /\ \A j \in k..(p - 1) : s[j] \in Digits
                        /\ (k = 1 \/ s[k - 1] \notin Digits)
                 n == ParseInt(SubSeq(s, a, p - 1))
             IN  CASE s[p] = "h" -> 3600 * n
                   [] s[p] = "m" -> 60 * n
                   [] s[p] = "s" -> n
        ELSE 0)
       + TokenSeconds(s, p - 1)

\* The unit counts: it has a non-empty duration string and its include flag
\* is true or undefined.
Qualifies(unit) ==
  /\ "estimatedDuration" \in DOMAIN unit
  /\ Len(unit.estimatedDuration) > 0
  /\ ("include" \in DOMAIN unit => unit.include = "true")

RECURSIVE QualifyingSeconds(_, _)
QualifyingSeconds(units, i) ==
  IF i > Len(units) THEN 0
  ELSE (IF Qualifies(units[i])
        THEN TokenSeconds(units[i].estimatedDuration, Len(units[i].estimatedDuration))
        ELSE 0)
       + QualifyingSeconds(units, i + 1)

\* "<H>h <M>m <S>s": hours shown when positive, minutes when positive or
\* hours are shown, seconds always.
HoursMinutesSeconds(total) ==
  LET h == total \div 3600
      m == (total - 3600 * h) \div 60
      sec == total - 3600 * h - 60 * m
  IN  IF h > 0 THEN NumToStr(h) \o <<"h", " ">> \o NumToStr(m) \o <<"m", " ">>
                    \o NumToStr(sec) \o <<"s">>
      ELSE IF m > 0 THEN NumToStr(m) \o <<"m", " ">> \o NumToStr(sec) \o <<"s">>
      ELSE NumToStr(sec) \o <<"s">>

\* The units of the example: "1h 5m 30s", "45s" and a unit without duration,
\* none of them excluded.
IsExampleList(units) ==
  /\ Len(units) = 3
  /\ Qualifies(units[1])
  /\ units[1].estimatedDuration = <<"1", "h", " ", "5", "m", " ", "3", "0", "s">>
  /\ Qualifies(units[2])
  /\ units[2].estimatedDuration = <<"4", "5", "s">>
  /\ "estimatedDuration" \notin DOMAIN units[3]

\* C10 as stated: calculateTotalDuration returns the formatting of the sum,
\* over exactly the qualifying units, of the seconds of their tokens.
C10_TotalIsFormattedSum ==
  pc = "aggregated" =>
    durationTotal = HoursMinutesSeconds(QualifyingSeconds(durationUnits, 1))

\* C10 amended: when at least one unit qualifies, calculateTotalDuration
\* returns the formatting of the sum, over exactly the qualifying units, of
\* the seconds of their tokens (a string without token adds zero); when no
\* unit qualifies it returns "Unknown".  The example list gives "1h 6m 15s".
C10_TotalIsFormattedSumOrUnknown ==
  pc = "aggregated" =>
    /\ IF \E i \in 1..Len(durationUnits) : Qualifies(durationUnits[i])
       THEN durationTotal = HoursMinutesSeconds(QualifyingSeconds(durationUnits, 1))
       ELSE durationTotal = Unknown
    /\ IsExampleList(durationUnits) =>
         durationTotal = <<"1", "h", " ", "6", "m", " ", "1", "5", "s">>

\* C10 witness: the example list has been aggregated to "1h 6m 15s".
C10_ExampleAggregated ==
  /\ pc = "aggregated"
  /\ IsExampleList(durationUnits)
  /\ durationTotal = <<"1", "h", " ", "6", "m", " ", "1", "5", "s">>


\* The list with the units at positions i and j exchanged.
Swapped(units, i, j) ==
  [k \in 1..Len(units) |->
     IF k = i THEN units[j] ELSE IF k = j THEN units[i] ELSE units[k]]

\* C11: the total of a list is the total of the list with any two of its
\* units exchanged (every list being aggregated, this is: of any permutation
\* of it), and what a unit contributes does not depend on the units
\* aggregated before it: the seconds of a list are the seconds of any
\* prefix plus the seconds of the rest.
C11_AggregationOrderIndependent ==
  pc = "aggregated" =>
    /\ \A i, j \in 1..Len(durationUnits) :
         calculateTotalDuration(Swapped(durationUnits, i, j)) = durationTotal
    /\ LET counted == SelectSeq(durationUnits, HasCountedDuration)
       IN  \A n \in 0..Len(counted) :
             SumSeconds(counted) =
               SumSeconds(SubSeq(counted, 1, n))
                 + SumSeconds(SubSeq(counted, n + 1, Len(counted)))

\* C11 witness: a list of three units has been aggregated whose first two
\* units qualify and contribute different seconds.
C11_TwoDifferentUnitsAggregated ==
  /\ pc = "aggregated"
  /\ Len(durationUnits) = 3
  /\ Qualifies(durationUnits[1]) /\ Qualifies(durationUnits[2])
  /\ SumSeconds(<<durationUnits[1]>>) > SumSeconds(<<durationUnits[2]>>)
  /\ SumSeconds(<<durationUnits[2]>>) > 0
  /\ durationTotal # Unknown


\* No itemref of the spine refers to a manifest item of an HTML media type.
NoHtmlSpineItem(a) ==
  \A i \in 1..Len(a.spine) : \A k \in 1..Len(a.manifest) :
    a.manifest[k].id = a.spine[i] => a.manifest[k].mediaType \notin HtmlMediaTypes

\* C12: a Document none of whose included units has a counted duration has
\* the total duration "Unknown"; the conversion of a well-formed archive
\* whose spine has no HTML item does not fail, and its Document has no
\* unit, no chapter, totalChapters 0 and the total duration "Unknown".
C12_UnknownWhenNothingQualifies ==
  converter = "sequential" =>
    /\ (pc = "done" /\ \A i \in 1..Len(document.content) :
                         ~Qualifies(document.content[i])) =>
         document.estimatedTotalDuration = Unknown
    /\ (~ArchiveStageFails(archive) /\ NoHtmlSpineItem(archive)) =>
         /\ pc # "failed"
         /\ sections = <<>>
         /\ pc = "done" =>
              /\ document.content = <<>>
              /\ document.chapters = <<>>
              /\ document.totalChapters = 0
              /\ document.estimatedTotalDuration = Unknown

\* C12 witness: an archive whose spine has two items, none of them HTML,
\* has been converted.
C12_ConvertedWithoutHtmlItem ==
  /\ Finished
  /\ Len(archive.spine) = 2
  /\ NoHtmlSpineItem(archive)
  /\ document.totalChapters = 0
  /\ document.estimatedTotalDuration = Unknown


PunctuationMarks == {".", "!", "?", "U+3002", "U+FF01", "U+FF1F"}

\* C13: parseSentences of a non-empty text that consists of punctuation
\* marks only returns no sentence, for every language.
C13_PunctuationOnlyGivesNoSentence ==
  (/\ pc = "segmented"
   /\ segText # <<>>
   /\ \A i \in 1..Len(segText) : segText[i] \in PunctuationMarks)
    => segSentences = <<>>


\* The positions in the manifest of the item elements with the given id.
Declarations(a, id) == {k \in 1..Len(a.manifest) : a.manifest[k].id = id}

\* The id is declared by more than one item element, with different hrefs.
DeclaredTwice(a, id) ==
  \E k, l \in Declarations(a, id) : a.manifest[k].href # a.manifest[l].href

ContentTypes ==
  {"chapter", "frontmatter", "toc", "copyright", "dedication", "preface",
   "appendix", "other", "error"}

\* C16: every unit of the Document (of content, and so of chapters and
\* frontMatter) has a contentType, which is one of the nine content types,
\* whatever JSON value the oracle's response was.
C16_ContentTypesValidated ==
  Finished =>
    \A i \in 1..Len(document.content) :
      /\ "contentType" \in DOMAIN document.content[i]
      /\ document.content[i].contentType \in ContentTypes

\* The unit is a chapter that is not excluded.
IsIncludedChapter(unit) ==
  /\ "contentType" \in DOMAIN unit /\ unit.contentType = "chapter"
  /\ ("include" \in DOMAIN unit => unit.include # "false")

\* The unit is neither excluded, nor a chapter, nor an error unit.
IsIncludedFrontMatter(unit) ==
  /\ ("contentType" \in DOMAIN unit => unit.contentType \notin {"chapter", "error"})
  /\ ("include" \in DOMAIN unit => unit.include # "false")

\* C17: in the Document, content has the result of every extracted unit,
\* chapters is content restricted to the chapters that are not excluded,
\* frontMatter is content restricted to the units that are not excluded and
\* are neither chapters nor error units, no unit is in both, and
\* totalChapters is the length of chapters.
C17_DocumentPartition ==
  Finished =>
    /\ document.content = processedSections
    /\ Len(document.content) = Len(sections)
    /\ document.chapters = SelectSeq(document.content, IsIncludedChapter)
    /\ document.frontMatter = SelectSeq(document.content, IsIncludedFrontMatter)
    /\ \A k \in 1..Len(document.chapters) : \A l \in 1..Len(document.frontMatter) :
         document.chapters[k] # document.frontMatter[l]
    /\ document.totalChapters = Len(document.chapters)

\* C17 witness: a Document of three units: a chapter, a front-matter unit
\* and a unit that is in neither list.
C17_ThreeKindsOfUnit ==
  /\ Finished
  /\ Len(document.content) = 3
  /\ Len(document.chapters) = 1
  /\ Len(document.frontMatter) = 1
  /\ \E i \in 1..3 : IsErrorUnit(document.content[i])


\* C18: for every unit of the sequential converter whose call has settled,
\* the response was parsed at most twice, and a second time only when the
\* extracted text did not parse; when the call raised (nothing is parsed)
\* or neither parse succeeded, the unit's result is an "error" unit with
\* include false, and after two failed parses its rawResponse is the first
\* RawResponseChars characters of the response (all of it when shorter)
\* followed by an ellipsis.  No unit's call is issued twice.
C18_TwoParsesBoundedExcerpt ==
  converter = "sequential" =>
    /\ \A k, l \in 1..Len(oracleLog) :
         k # l => oracleLog[k].section # oracleLog[l].section
    /\ DOMAIN parses = DOMAIN outcomes
    /\ \A id \in DOMAIN outcomes :
         LET outcome == outcomes[id]
             result == processedSections[id + 1]
             extracted == TrimTokens(ExtractJsonContent(outcome.text))
         IN  /\ parses[id] \in 0..2
             /\ outcome.kind = "raise" =>
                  /\ parses[id] = 0
                  /\ IsErrorUnit(result) /\ result.include = "false"
                  /\ "rawResponse" \notin DOMAIN result
             /\ outcome.kind = "text" =>
                  /\ parses[id] >= 1
                  /\ parses[id] = 2 <=> ~JsonParse(extracted).ok
                  /\ parses[id] = 1 => "rawResponse" \notin DOMAIN result
             /\ (outcome.kind = "text" /\ ClassificationFailed(outcome)) =>
                  /\ parses[id] = 2
                  /\ IsErrorUnit(result) /\ result.include = "false"
                  /\ Len(result.rawResponse) <= RawResponseChars + 1
                  /\ LET kept == Len(result.rawResponse) - 1
                     IN  /\ kept = (IF Len(outcome.text) < RawResponseChars
                                    THEN Len(outcome.text) ELSE RawResponseChars)
                         /\ result.rawResponse = SubSeq(outcome.text, 1, kept) \o <<Ellipsis>>

\* C18 witness: a unit whose response was longer than RawResponseChars and
\* unparseable has its result, with an excerpt of RawResponseChars
\* characters and the ellipsis.
C18_LongResponseCut ==
  /\ converter = "sequential"
  /\ \E id \in DOMAIN outcomes :
       /\ outcomes[id].kind = "text"
       /\ Len(outcomes[id].text) > RawResponseChars
       /\ parses[id] = 2
       /\ Len(processedSections[id + 1].rawResponse) = RawResponseChars + 1


\* The item element a spine itemref resolves to: the first one declaring
\* the idref.
Resolved(a, idref) ==
  a.manifest[CHOOSE k \in Declarations(a, idref) : \A l \in Declarations(a, idref) : k <= l]

\* The itemref is one of the four kinds the extraction passes over.
Skippable(a, idref) ==
  \/ idref = ""
  \/ Declarations(a, idref) = {}
  \/ Resolved(a, idref).mediaType \notin HtmlMediaTypes
  \/ Dirname(a.fullPath) \o Resolved(a, idref).href \notin a.entries

\* C19: of the spine positions walked so far, exactly those whose itemref
\* has an idref that the manifest declares with an HTML media type and a
\* path held by the archive have given a unit, in spine order; the units
\* are numbered 0, 1, ... without gap, there are never more units than
\* spine items, and the sequential conversion fails only for a fault of
\* the archive stage, never for a passed-over itemref.
C19_SpineWalkSkipsAndNumbers ==
  /\ (converter = "sequential" /\ pc = "failed") => ArchiveFault(archive) # NoFault
  /\ Len(sections) = Len(sectionSpine)
  /\ Len(sections) <= Len(archive.spine)
  /\ StrictlyIncreasing(sectionSpine)
  /\ \A p \in 1..Len(archive.spine) :
       (\E i \in 1..Len(sectionSpine) : sectionSpine[i] = p)
         <=> (p < spineIdx /\ ~Skippable(archive, archive.spine[p]))
  /\ \A i \in 1..Len(sections) :
       /\ sections[i].id = i - 1
       /\ converter = "sequential" =>
            sections[i].sourceId = archive.spine[sectionSpine[i]]

\* C19 witness: a conversion is done whose spine had a passed-over itemref
\* before and after the only extracted one, which is numbered 0.
C19_SkippedAroundOneUnit ==
  /\ Finished
  /\ Len(archive.spine) = 3
  /\ sectionSpine = <<2>>
  /\ sections[1].id = 0
  /\ Skippable(archive, archive.spine[1])
  /\ Skippable(archive, archive.spine[3])
  /\ archive.spine[1] # archive.spine[3]


\* The values the three places of the package document supply, highest
\* priority first: the first dc:language element, the package element, the
\* first meta element that names the language.
LanguageSources(a) ==
  LET named == {i \in 1..Len(a.metas) : IsLanguageMeta(a.metas[i])}
      first == CHOOSE i \in named : \A j \in named : i <= j
  IN  << IF a.dcLanguage = <<>> THEN <<>> ELSE a.dcLanguage[1],
         a.packageLang,
         IF named = {} THEN <<>>
         ELSE IF a.metas[first].content # <<>> THEN a.metas[first].content
         ELSE a.metas[first].text >>

\* C20: once the sequential converter has read the package document, the
\* language is the value of the highest-priority place that supplies one
\* (first dc:language element, then the package element's attribute, then
\* the first language meta element), "en" when none does; it is never
\* empty, and the Document carries the same language.
C20_LanguageByPriority ==
  (converter = "sequential" /\ Has(bookMetadata, "language")) =>
    LET sources == LanguageSources(archive)
        supplying == {n \in 1..3 : sources[n] # <<>>}
        language == bookMetadata.language
    IN  /\ language # <<>>
        /\ supplying = {} => language = <<"e", "n">>
        /\ \A n \in supplying :
             (\A m \in supplying : n <= m) => language = sources[n]
        /\ pc = "done" => document.language = language

\* C20 witness: a conversion is done of a package document whose first
\* dc:language element is empty while the package element and a meta
\* element both give a language, different ones; the package element's is
\* the Document's.
C20_PackageLangBeforeMeta ==
  /\ Finished
  /\ LanguageSources(archive)[1] = <<>>
  /\ LanguageSources(archive)[2] # <<>>
  /\ LanguageSources(archive)[3] # <<>>
  /\ LanguageSources(archive)[2] # LanguageSources(archive)[3]
  /\ document.language = archive.packageLang


\* The language is in the default (space-delimited) bucket.
DefaultBucket(language) == LangCode(language) \notin EastAsian

\* The text with every whitespace run made one space and the ends trimmed.
Normalized(text) == Trim(CollapseWhitespace(text))

\* The positions of the terminal marks of t that are followed by a space
\* and a capital letter the language accepts.
SentenceEnds(t, language) ==
  {i \in 1..(Len(t) - 2) :
     /\ t[i] \in {".", "!", "?"}
     /\ t[i + 1] = " "
     /\ t[i + 2] \in PatternCapitals(LangCode(language))}

\* The k-th smallest element of a set of numbers.
NthOf(S, k) == CHOOSE x \in S : Cardinality({y \in S : y <= x}) = k

\* The k-th stretch of t cut after each position of ends, the space after
\* the position left out.
Stretch(t, ends, k) ==
  SubSeq(t,
         IF k = 1 THEN 1 ELSE NthOf(ends, k - 1) + 2,
         IF k = Cardinality(ends) + 1 THEN Len(t) ELSE NthOf(ends, k))

\* C21: for a language of the default bucket the sentences returned are the
\* stretches of the normalized text cut after each terminal mark that is
\* followed by whitespace and an accepted capital letter: each mark ends
\* its sentence, the next sentence starts at the capital letter, the
\* sentences are in text order, none is empty and none begins or ends with
\* whitespace.
C21_SplitAtMarkBeforeCapital ==
  (pc = "segmented" /\ DefaultBucket(segLanguage)) =>
    LET t == Normalized(segText)
        ends == SentenceEnds(t, segLanguage)
        n == IF t = <<>> THEN 0 ELSE Cardinality(ends) + 1
    IN  /\ Len(segSentences) = n
        /\ \A k \in 1..n :
             /\ segSentences[k] = Stretch(t, ends, k)
             /\ segSentences[k] # <<>>
             /\ segSentences[k][1] \notin Whitespace
             /\ segSentences[k][Len(segSentences[k])] \notin Whitespace
             /\ k < n => segSentences[k][Len(segSentences[k])] \in {".", "!", "?"}
             /\ k > 1 => segSentences[k][1] \in PatternCapitals(LangCode(segLanguage))

\* C21 witness: a text segmented under the tag ES into two sentences, the
\* second starting at an inverted question mark.
C21_SpanishTwoSentences ==
  /\ pc = "segmented"
  /\ segLanguage = <<"E", "S">>
  /\ Len(segSentences) = 2
  /\ segSentences[1][Len(segSentences[1])] = "."
  /\ segSentences[2] = <<"U+00BF">>


\* The marks that delimit sentences for zh, ja and ko.
DelimitingMarks(language) ==
  IF LangCode(language) = <<"k", "o">>
  THEN {"U+3002", "U+FF01", "U+FF1F", ".", "!", "?"}
  ELSE {"U+3002", "U+FF01", "U+FF1F"}

\* The stretches of s between the marks, the marks left out.
RECURSIVE StretchesBetween(_, _, _)
StretchesBetween(s, cur, marks) ==
  IF s = <<>> THEN <<cur>>
  ELSE IF s[1] \in marks
       THEN <<cur>> \o StretchesBetween(Tail(s), <<>>, marks)
       ELSE StretchesBetween(Tail(s), Append(cur, s[1]), marks)

\* C22: for zh, ja and ko the sentences returned are, in text order, the
\* non-empty trimmed stretches of the text between the terminal marks, so
\* as many sentences as there are such stretches.
C22_EastAsianStretchesBetweenMarks ==
  (pc = "segmented" /\ ~DefaultBucket(segLanguage)) =>
    segSentences =
      TrimAndDropEmpty(StretchesBetween(segText, <<>>, DelimitingMarks(segLanguage)))


\* The positions at which a whitespace-separated token of t starts.
TokenStarts(t) ==
  {i \in 1..Len(t) : t[i] \notin Whitespace /\ (i = 1 \/ t[i - 1] \in Whitespace)}

\* C23: the wordCount of a chapter is the number of whitespace-separated
\* tokens of its cleaned text for a space-delimited language, and the
\* ceiling of the number of non-whitespace characters over 2.5 for zh, ja
\* and ko; its estimatedDuration is "Nm 0s" with N = max(1, round(wordCount
\* / WordsPerMinute)), halves rounded up.  So N is at least 1, also for the
\* empty text, and the word counts that give N lie below those that give
\* N + 1.
C23_WordCountAndMinutes ==
  pc = "estimated" =>
    LET w == estWordCount
        characters == Cardinality({i \in 1..Len(estText) : estText[i] \notin Whitespace})
    IN  /\ DefaultBucket(estLanguage) => w = Cardinality(TokenStarts(estText))
        /\ ~DefaultBucket(estLanguage) =>
             /\ 5 * w >= 2 * characters
             /\ 5 * (w - 1) < 2 * characters
        /\ \E N \in 1..(w \div WordsPerMinute + 1) :
             /\ estDuration = NumToStr(N) \o <<"m", " ", "0", "s">>
             /\ N = 1 => 2 * w < 3 * WordsPerMinute
             /\ N > 1 => /\ 2 * w >= (2 * N - 1) * WordsPerMinute
                         /\ 2 * w < (2 * N + 1) * WordsPerMinute

\* C23 witness: a text of one and a half times WordsPerMinute words in a
\* space-delimited language is estimated at two minutes.
C23_HalfRoundsUp ==
  /\ pc = "estimated"
  /\ DefaultBucket(estLanguage)
  /\ 2 * estWordCount = 3 * WordsPerMinute
  /\ estDuration = <<"2", "m", " ", "0", "s">>


\* The number of times the character c occurs in s.
Occurrences(s, c) == Cardinality({i \in 1..Len(s) : s[i] = c})

\* C24: a total of T seconds is written with H = T div 3600, M = (T mod
\* 3600) div 60 and S = T mod 60: the hours segment is there exactly when
\* H > 0, the minutes segment exactly when M > 0 or H > 0, the seconds
\* segment always, the segments separated by one space; and aggregating a
\* single unit whose duration is such a total returns the same string.
C24_SegmentsAndRoundTrip ==
  (pc \in {"aggregated", "reaggregated"} /\ durationTotal # Unknown) =>
    LET T == QualifyingSeconds(durationUnits, 1)
        H == T \div 3600
        M == (T % 3600) \div 60
        S == T % 60
        hours == IF H > 0 THEN NumToStr(H) \o <<"h", " ">> ELSE <<>>
        minutes == IF M > 0 \/ H > 0 THEN NumToStr(M) \o <<"m", " ">> ELSE <<>>
    IN  /\ durationTotal = hours \o minutes \o NumToStr(S) \o <<"s">>
        /\ Occurrences(durationTotal, "h") = (IF H > 0 THEN 1 ELSE 0)
        /\ Occurrences(durationTotal, "m") = (IF M > 0 \/ H > 0 THEN 1 ELSE 0)
        /\ Occurrences(durationTotal, "s") = 1
        /\ T = 0 => durationTotal = <<"0", "s">>
        /\ T = 3600 => durationTotal = <<"1", "h", " ", "0", "m", " ", "0", "s">>
        /\ pc = "reaggregated" => durationTotal = durationUnits[1].estimatedDuration

\* C24 witness: the total "1h 0m 0s" of one hour has been aggregated again
\* and returned unchanged.
C24_OneHourAggregatedAgain ==
  /\ pc = "reaggregated"
  /\ durationUnits[1].estimatedDuration = <<"1", "h", " ", "0", "m", " ", "0", "s">>
  /\ durationTotal = <<"1", "h", " ", "0", "m", " ", "0", "s">>


\* The positions in the history of the events of one kind for one unit.
EventsOf(kind, id) ==
  {p \in 1..Len(events) : events[p].kind = kind /\ events[p].section = id}

\* C25: in the batched converter the results collected so far are, position
\* by position, the results of the first input units with their own
\* outcomes, in whatever order the calls of a batch settled; no unit's call
\* is started or settled twice, and the returned list has exactly one
\* result for every input unit.
C25_ResultsInInputOrder ==
  converter = "batched" =>
    /\ Len(results) <= Len(sections)
    /\ \A i \in 1..Len(results) :
         /\ (i - 1) \in DOMAIN outcomes
         /\ results[i] = ProcessedChapter(sections[i], outcomes[i - 1])
    /\ \A i \in 1..Len(sections) :
         /\ Cardinality(EventsOf("started", i - 1)) <= 1
         /\ Cardinality(EventsOf("settled", i - 1)) <= 1
    /\ pc = "done" =>
         /\ Len(results) = Len(sections)
         /\ document.chapters = results
         /\ \A i \in 1..Len(sections) :
              /\ Cardinality(EventsOf("started", i - 1)) = 1
              /\ Cardinality(EventsOf("settled", i - 1)) = 1

\* C25 witness: a conversion is done in which the call of the second unit
\* settled before the call of the first, with different results, and the
\* returned list has the first unit's result first.
C25_SecondSettledFirst ==
  /\ converter = "batched"
  /\ pc = "done"
  /\ Len(results) >= 2
  /\ \E p \in EventsOf("settled", 1), q \in EventsOf("settled", 0) : p < q
  /\ results[1] # results[2]
  /\ results[1] = ProcessedChapter(sections[1], outcomes[0])


\* The number of the batch the unit was put in.
BatchOf(id) ==
  CHOOSE k \in 1..Len(batches) : \E n \in 1..Len(batches[k]) : batches[k][n].id = id

Delays == {p \in 1..Len(events) : events[p].kind = "delayed"}

\* C26: in the batched converter a call of a batch after the first starts
\* only after every call of the batch before it has settled and a delay
\* has elapsed since the last of them settled; there is one delay between
\* every two consecutive batches and none after the last batch.
C26_BatchesSeparatedByDelay ==
  converter = "batched" =>
    /\ \A p \in 1..Len(events) :
         (events[p].kind = "started" /\ BatchOf(events[p].section) > 1) =>
           LET before == batches[BatchOf(events[p].section) - 1]
           IN  \E d \in Delays :
                 /\ d < p
                 /\ \A n \in 1..Len(before) :
                      \E q \in EventsOf("settled", before[n].id) : q < d
    /\ Cardinality(Delays) <= Max(Len(batches) - 1, 0)
    /\ \A d \in Delays : d > 1 /\ events[d - 1].kind = "settled"
    /\ pc = "done" =>
         /\ Cardinality(Delays) = Max(Len(batches) - 1, 0)
         /\ \A d \in Delays : d < Len(events) /\ events[d + 1].kind = "started"

\* C26 witness: a conversion in two batches is done, with one delay, which
\* lies after the calls of the first batch settled and before the call of
\* the second batch started.
C26_TwoBatchesOneDelay ==
  /\ converter = "batched"
  /\ pc = "done"
  /\ Len(batches) = 2
  /\ Len(batches[1]) = 2
  /\ Cardinality(Delays) = 1
  /\ events[Len(events)].kind = "settled"
  /\ \E d \in Delays : events[d + 1] = Event("started", batches[2][1].id)


\* The seconds of the estimatedDuration values of the units from the i-th
\* on.
RECURSIVE ListedSeconds(_, _)
ListedSeconds(units, i) ==
  IF i > Len(units) THEN 0
  ELSE (IF "estimatedDuration" \in DOMAIN units[i]
        THEN TokenSeconds(units[i].estimatedDuration, Len(units[i].estimatedDuration))
        ELSE 0)
       + ListedSeconds(units, i + 1)

\* C27: in every produced Document the total duration is the sum of the
\* durations of exactly the units listed in chapters, and is "Unknown"
\* exactly when chapters is empty.
C27_TotalIsSumOverChapters ==
  Finished =>
    document.estimatedTotalDuration =
      (IF document.chapters = <<>> THEN Unknown
       ELSE HoursMinutesSeconds(ListedSeconds(document.chapters, 1)))


\* C28: for every batchSize the caller gives, the loop that splits the
\* units into batches ends: its index only moves forward from 0, and it
\* runs at most once per unit; and once the batches are processed every
\* unit has been submitted to the oracle exactly once.
C28_SplitLoopEndsAndSubmitsAll ==
  converter = "batched" =>
    /\ splitIdx >= 0
    /\ Len(batches) <= Len(sections)
    /\ (pc = "batch" /\ batchIdx >= Len(batches)) =>
         \A i \in 1..Len(sections) : Cardinality(EventsOf("started", i - 1)) = 1


\* The oracle's response holds a JSON object with a sourceId or sourceHref
\* of its own that differs from the section's.
NamesAnotherSource(outcome, section) ==
  \E n \in 1..Len(outcome.text) :
    LET tok == outcome.text[n]
    IN  /\ tok.t = "json" /\ tok.v.type = "object"
        /\ \/ ("sourceId" \in DOMAIN tok.v.fields
               /\ tok.v.fields.sourceId # section.sourceId)
           \/ ("sourceHref" \in DOMAIN tok.v.fields
               /\ tok.v.fields.sourceHref # section.sourceHref)

\* C29: every processed unit of the sequential converter has the sourceId
\* and the sourceHref of the extracted unit at the same position, which are
\* those of its spine item, whatever the oracle's response was: a parsed
\* object (also one with a sourceId or sourceHref of its own), unparseable
\* text or a raised call.
C29_SourceAttributionKept ==
  converter = "sequential" =>
    /\ \A i \in 1..Len(processedSections) :
         /\ Has(processedSections[i], "sourceId")
         /\ Has(processedSections[i], "sourceHref")
         /\ processedSections[i].sourceId = sections[i].sourceId
         /\ processedSections[i].sourceHref = sections[i].sourceHref
         /\ processedSections[i].sourceId = archive.spine[sectionSpine[i]]
    /\ pc = "done" =>
         \A i \in 1..Len(document.content) :
           /\ document.content[i].sourceId = sections[i].sourceId
           /\ document.content[i].sourceHref = sections[i].sourceHref

\* C29 witness: a conversion of three units is done in which one response
\* named another source and was parsed, one call raised and one response
\* could not be parsed.
C29_ForgedSourceAndBothErrors ==
  /\ Finished
  /\ Len(sections) = 3
  /\ \E i, j, k \in 0..2 :
       /\ outcomes[i].kind = "text"
       /\ NamesAnotherSource(outcomes[i], sections[i + 1])
       /\ IsChapter(document.content[i + 1])
       /\ outcomes[j].kind = "raise"
       /\ outcomes[k].kind = "text"
       /\ Has(document.content[k + 1], "rawResponse")


\* The sentences joined with single spaces.
RECURSIVE JoinWithSpaces(_)
JoinWithSpaces(sentences) ==
  IF sentences = <<>> THEN <<>>
  ELSE IF Len(sentences) = 1 THEN sentences[1]
  ELSE sentences[1] \o <<" ">> \o JoinWithSpaces(Tail(sentences))

\* C30: for a language of the default bucket the sentences joined with
\* single spaces are the whitespace-normalized text, character for
\* character, and segmenting the joined text returns the same sentences.
C30_SegmentationLossless ==
  (pc = "segmented" /\ DefaultBucket(segLanguage)) =>
    LET joined == JoinWithSpaces(segSentences)
    IN  /\ joined = Normalized(segText)
        /\ parseSentences(joined, segLanguage) = segSentences

\* C30 witness: a text with two sentences has been segmented, and the two
\* joined with a space are the text.
C30_TwoSentencesRejoined ==
  /\ pc = "segmented"
  /\ DefaultBucket(segLanguage)
  /\ Len(segSentences) = 2
  /\ Len(segText) = MaxTextLen
  /\ segSentences[1] \o <<" ">> \o segSentences[2] = segText

==========================================================================
